---- MODULE Spec2Model ----
(***************************************************************************)
(* Model of gofuzz (gregcmartin/gofuzz).                                   *)
(*                                                                         *)
(*   Part 1  the mutation loops: MutationFuzzer.Run and                    *)
(*           MutationCoverageFuzzer.Run with its energy scheduler          *)
(*           (internal/fuzzer/mutation_fuzzer.go, web_form_fuzzer.go).     *)
(*   Part 2  the grammar coverage tracker GrammarCoverage and the          *)
(*           expansion-key helpers (unnamed/part_002, part_003, part_005). *)
(*   Part 3  the grammar generators: chooseExpansion and                   *)
(*           generateDerivationTree of GrammarCoverageFuzzer and           *)
(*           SystematicCoverageFuzzer, and their Run (unnamed/part_000,    *)
(*           internal/fuzzer/systematic_coverage_fuzzer.go).               *)
(*   Part 4  the response coverage tracker Coverage (unnamed/part_004).    *)
(*   Part 5  MutationCoverageFuzzer's loop body run by concurrent workers. *)
(*   Part 6  the worker pool of Fuzzer.Run and CoverageFuzzer.Run          *)
(*           (internal/fuzzer/fuzzer.go, unnamed/part_001).                *)
(*   Part 7  MutationFuzzer.mutateString on strings as byte sequences.     *)
(*   Part 8  the loop body of CoverageFuzzer.worker on the Coverage        *)
(*           tracker of Part 4 (unnamed/part_001).                         *)
(*   Part 9  CoverageFuzzer.expandRule on the grammars of                  *)
(*           html.Form.GenerateGrammar (unnamed/part_001,                  *)
(*           internal/html/parser.go).                                     *)
(*   Part 10 WebCrawler.crawlConcurrent with its workers, its completion   *)
(*           monitor and processURL (internal/fuzzer/web_crawler.go).      *)
(*                                                                         *)
(* Strings that are only compared (inputs, fingerprints) are TLA+ strings. *)
(* Strings that are built and parsed (symbols, expansions, expansion keys) *)
(* are sequences of chunks; the chunk Arrow stands for the text " -> " and *)
(* the chunk Space for one blank.                                          *)
(***************************************************************************)
EXTENDS Integers, Sequences, FiniteSets

\* ------------------------------------------------------------------------
\* Bounds
\* ------------------------------------------------------------------------
\* longest Config.SeedInputs list
MaxSeeds == 2
\* Config.NumRequests of the runs that enter the loop (the others have 0)
MaxRequests == 4
\* largest Config.MaxCorpus
MaxCorpusBound == 3

\* the strings that seeds and mutants are drawn from
Inputs == {"a", "b", "c"}
\* the coverage fingerprints a response can produce
Fingerprints == {"f1", "f2", "f3"}

VARIABLES
    kind,           \* which fuzzer's Run is executing
    SeedInputs,     \* Config.SeedInputs
    NumRequests,    \* Config.NumRequests
    maxPopulation,  \* MutationCoverageFuzzer.maxPopulation (= Config.MaxCorpus)
    population,     \* MutationCoverageFuzzer.population
    energies,       \* MutationCoverageFuzzer.energies (a map: its DOMAIN is the key set)
    totalEnergy,    \* MutationCoverageFuzzer.totalEnergy
    coverageSeen,   \* MutationCoverageFuzzer.coverageSeen (the keys mapped to true)
    inputs,         \* MutationFuzzer.Run: the local pool "inputs"
    coverage,       \* MutationFuzzer.coverage (the keys mapped to true)
    pc,             \* position inside Run
    seedIdx,        \* index of the next seed of the seeding loop
    i,              \* loop counter of the main fuzzing loop
    point,          \* the value rand.Intn returned in selectInput (-1: not drawn)
    input,          \* local "input" of the current iteration
    mutated,        \* local "mutated" of the current iteration
    cov,            \* local "coverage" of the current iteration
    requests,       \* number of requests handed to the HTTP client so far
    runResult,      \* how Run ended: "none" (running), "nil", "error", "panic"
    accepted        \* history: the mutants admitted for new coverage, in order

schedVars == <<kind, SeedInputs, NumRequests, maxPopulation, population, energies,
               totalEnergy, coverageSeen, inputs, coverage, pc, seedIdx, i, point,
               input, mutated, cov, requests, runResult, accepted>>

VARIABLES
    expansions,     \* GrammarCoverage.expansions: the snapshot of the grammar
    covered,        \* GrammarCoverage.covered: expansion key -> count
    priorities,     \* GrammarCoverage.priorities: expansion key -> priority
    trees           \* GrammarCoverage.trees (the keys mapped to true)

gcVars == <<expansions, covered, priorities, trees>>

VARIABLES
    variant,        \* which generator's Run is executing
    grammar,        \* GrammarCoverageFuzzer.grammar
    MaxDepth,       \* Config.MaxDepth
    stack,          \* the active calls of generateDerivationTree, innermost last
    pending,        \* the call of generateDerivationTree that is about to start
    calls,          \* history: the TrackExpansion calls made while the tree was built
    choice,         \* the chooseExpansion call of the step just taken: branch, draw, result
    genTree,        \* Run: the local "tree"
    gpc,            \* position inside Run of the generators
    runs,           \* number of completed calls of Run
    chosen,         \* history: the pairs (symbol, expansion) chooseExpansion has returned
    genResult       \* what the last call of Run returned: "none" (running), "nil", "error"

genVars == <<variant, grammar, MaxDepth, stack, pending, calls, choice, genTree, gpc, runs,
             chosen, genResult>>

VARIABLES
    responses,      \* Coverage.responses: response hash -> count
    statusCodes,    \* Coverage.statusCodes: status code -> count
    paths,          \* Coverage.paths (the keys mapped to true)
    params,         \* Coverage.params (the keys mapped to true)
    values,         \* Coverage.values: parameter -> the values mapped to true
    tracked,        \* history: response -> number of TrackResponse calls made with it
    covRet          \* the last call on the Coverage object and what it returned

covVars == <<responses, statusCodes, paths, params, values, tracked, covRet>>

VARIABLES
    wpc,            \* worker -> its position inside the body of the main fuzzing loop
    wloc            \* worker -> the locals of its iteration and its iteration count

mwVars == <<wpc, wloc>>

VARIABLES
    Concurrency,    \* Config.Concurrency
    ppc,            \* position of Run of the worker pool
    spawned,        \* Run: the number of workers started so far (the loop variable i)
    workerPc,       \* pool worker -> its position in worker
    workerI,        \* pool worker -> the loop variable i of worker
    results,        \* the number of results buffered in the results channel
    processor       \* the state of the goroutine running processResults

poolVars == <<Concurrency, ppc, spawned, workerPc, workerI, results, processor>>

VARIABLES
    msArg,          \* mutateString: the argument s (a string as its bytes)
    msChoice,       \* mutateString: the values its rand.Intn calls returned
    msRet,          \* mutateString: the string it returned
    msPc            \* "call" before mutateString runs, "done" after it returned

msVars == <<msArg, msChoice, msRet, msPc>>

VARIABLES
    TargetPath,     \* the path of Config.TargetURL ("" when it has none)
    corpus,         \* CoverageFuzzer.corpus
    cwPc,           \* position of the worker of CoverageFuzzer in its loop body
    cwInput,        \* worker: the local input
    cwNew,          \* history: TrackURL found new coverage in this iteration's request
    cwIter          \* worker: the loop variable i

cwVars == <<TargetPath, corpus, cwPc, cwInput, cwNew, cwIter>>

VARIABLES
    erGrammar,      \* CoverageFuzzer.grammar
    erStack,        \* expandRule: the local alt of every active call, outermost first
    erPc,           \* "start" before expandRule("<start>"), "loop" inside, "done" after
    erResult,       \* what expandRule("<start>") returned
    erTick          \* the parity of the number of replacements made so far

erVars == <<erGrammar, erStack, erPc, erResult, erTick>>

VARIABLES
    crSite,         \* the crawled site: URL -> the links extractLinks finds on its page
    maxPages,       \* WebCrawler.maxPages
    visited,        \* WebCrawler.visited (the URLs marked)
    stopCrawl,      \* WebCrawler.stopCrawl is closed
    urlQueue,       \* crawlConcurrent: the URLs buffered in urlQueue
    queueClosed,    \* crawlConcurrent: urlQueue is closed
    done,           \* crawlConcurrent: done is closed
    pendingWork,    \* crawlConcurrent: the counter pendingWork
    crWorker,       \* crawl worker -> its position, the URL it processes, its link index
    crMonitor,      \* position of the completion monitor
    crMain,         \* position of crawlConcurrent itself
    crPolls,        \* the parity of the number of sleeps of the monitor
    crPanic         \* the panic that ended the process, "none" when there is none

crVars == <<crSite, maxPages, visited, stopCrawl, urlQueue, queueClosed, done, pendingWork,
            crWorker, crMonitor, crMain, crPolls, crPanic>>

\* the variables of the parts after the worker pool
laterVars == <<msVars, cwVars, erVars, crVars>>

vars == <<schedVars, gcVars, genVars, covVars, mwVars, poolVars, laterVars>>

\* ------------------------------------------------------------------------
\* Helpers
\* ------------------------------------------------------------------------
RECURSIVE SeqsUpTo(_, _)
\* all sequences over S of length at most n
SeqsUpTo(S, n) ==
    IF n = 0 THEN {<<>>}
    ELSE LET shorter == SeqsUpTo(S, n - 1)
         IN  shorter \cup {Append(s, x) : s \in {t \in shorter : Len(t) = n - 1}, x \in S}

\* reading a Go map[string]int: a missing key reads as 0
Energy(m, x) == IF x \in DOMAIN m THEN m[x] ELSE 0

\* writing a Go map
Put(m, x, v) == [k \in (DOMAIN m) \cup {x} |-> IF k = x THEN v ELSE m[k]]

EmptyMap == [k \in {} |-> 0]

\* the scheduler fields the scheduler methods read and write
Sched == [population |-> population, energies |-> energies, totalEnergy |-> totalEnergy]

SetSched(s) ==
    /\ population' = s.population
    /\ energies' = s.energies
    /\ totalEnergy' = s.totalEnergy

RECURSIVE SumEnergies(_, _)
\* sum of m[x] over every entry x of the list pop, duplicates counted per entry
SumEnergies(pop, m) ==
    IF pop = <<>> THEN 0
    ELSE Energy(m, Head(pop)) + SumEnergies(Tail(pop), m)

\* ------------------------------------------------------------------------
\* Scheduler methods of MutationCoverageFuzzer
\* ------------------------------------------------------------------------
\* addToPopulation that appends the input without giving it energy
addToPopulationNoEnergy(s, x) ==
    [population  |-> Append(s.population, x),
     energies    |-> s.energies,
     totalEnergy |-> s.totalEnergy]

addToPopulation(s, x) ==
    [population  |-> Append(s.population, x),
     energies    |-> Put(s.energies, x, 1),
     totalEnergy |-> s.totalEnergy + 1]

\* assignEnergy adding the energy to the old one instead of replacing it
assignEnergyAdds(s, x, energy) ==
    [population  |-> s.population,
     energies    |-> Put(s.energies, x, Energy(s.energies, x) + energy),
     totalEnergy |-> s.totalEnergy + energy]

assignEnergy(s, x, energy) ==
    [population  |-> s.population,
     energies    |-> Put(s.energies, x, energy),
     totalEnergy |-> s.totalEnergy - Energy(s.energies, x) + energy]

RECURSIVE selectLoop(_, _, _, _)
\* the roulette wheel loop of selectInput from entry k on, with running sum "sum";
\* the index of the entry returned (the last entry when the loop runs out)
selectLoop(s, k, sum, p) ==
    IF k > Len(s.population) THEN Len(s.population)
    ELSE LET next == sum + Energy(s.energies, s.population[k])
         IN  IF next > p THEN k ELSE selectLoop(s, k + 1, next, p)

\* selectInput on a non-empty population, for the drawn point p
selectInput(s, p) == s.population[selectLoop(s, 1, 0, p)]

RECURSIVE insertEntryPastEqual(_, _)
\* the insertion pass with less() comparing >= : e also moves past equal energies
insertEntryPastEqual(sorted, e) ==
    IF sorted = <<>> THEN <<e>>
    ELSE LET last == sorted[Len(sorted)]
         IN  IF e.energy >= last.energy
             THEN Append(insertEntryPastEqual(SubSeq(sorted, 1, Len(sorted) - 1), e), last)
             ELSE Append(sorted, e)

RECURSIVE insertEntry(_, _)
\* one pass of the insertion sort sort.Slice runs on slices shorter than 12:
\* e moves left while less(e, predecessor), i.e. while its energy is greater
insertEntry(sorted, e) ==
    IF sorted = <<>> THEN <<e>>
    ELSE LET last == sorted[Len(sorted)]
         IN  IF e.energy > last.energy
             THEN Append(insertEntry(SubSeq(sorted, 1, Len(sorted) - 1), e), last)
             ELSE Append(sorted, e)

RECURSIVE sortByEnergy(_)
\* sort.Slice(entries, energy descending)
sortByEnergy(entries) ==
    IF entries = <<>> THEN <<>>
    ELSE insertEntry(sortByEnergy(SubSeq(entries, 1, Len(entries) - 1)),
                     entries[Len(entries)])

Min(a, b) == IF a < b THEN a ELSE b

\* prunePopulation that truncates the unsorted population and keeps the old total
prunePopulationUnsorted(s, maxPop) ==
    IF Len(s.population) <= maxPop THEN s
    ELSE LET newPop == SubSeq(s.population, 1, maxPop)
         IN  [population  |-> newPop,
              energies    |-> [x \in {newPop[k] : k \in 1..Len(newPop)} |-> Energy(s.energies, x)],
              totalEnergy |-> s.totalEnergy]

prunePopulation(s, maxPop) ==
    IF Len(s.population) <= maxPop THEN s
    ELSE LET entries == [k \in 1..Len(s.population) |->
                            [input |-> s.population[k],
                             energy |-> Energy(s.energies, s.population[k])]]
             sorted  == sortByEnergy(entries)
             kept    == SubSeq(sorted, 1, Min(maxPop, Len(sorted)))
             newPop  == [k \in 1..Len(kept) |-> kept[k].input]
             keys    == {newPop[k] : k \in 1..Len(newPop)}
             RECURSIVE sumKept(_)
             sumKept(q) == IF q = <<>> THEN 0 ELSE Head(q).energy + sumKept(Tail(q))
         IN  [population  |-> newPop,
              energies    |-> [x \in keys |-> Energy(s.energies, x)],
              totalEnergy |-> sumKept(kept)]

\* ------------------------------------------------------------------------
\* Init
\* ------------------------------------------------------------------------
\* the grammar coverage tracker is not part of the mutation loops
TrackerIdle ==
    /\ expansions = EmptyMap
    /\ covered = EmptyMap
    /\ priorities = EmptyMap
    /\ trees = {}

\* no derivation tree, the value of "tree" before generateDerivationTree returns
NoTree == [Symbol |-> <<>>, Children |-> <<>>, Value |-> <<>>, Expansion |-> <<>>]

\* no call of generateDerivationTree is about to start
NoCall == [symbol |-> <<>>, depth |-> -1]

\* chooseExpansion has not been called
NoChoice == [branch |-> "none", r |-> -1, expansion |-> <<>>]

\* the workers of the concurrent mutation loop
Workers == {1, 2}

\* the locals of a worker that is not inside an iteration
NoLocals(iter) ==
    [input |-> "", mutated |-> "", cov |-> "", target |-> "", energy |-> 0,
     oldEnergy |-> 0, read |-> 0, iter |-> iter]

\* no worker runs loop iterations concurrently
MwIdle ==
    /\ wpc = [w \in Workers |-> "loop"]
    /\ wloc = [w \in Workers |-> NoLocals(0)]

\* the largest Concurrency of a worker pool
MaxConcurrency == 3

\* the goroutines a worker pool can start
PoolWorkers == 1..MaxConcurrency

\* no worker pool has been started
PoolIdle ==
    /\ Concurrency = 0
    /\ ppc = "idle"
    /\ spawned = 0
    /\ workerPc = [w \in PoolWorkers |-> "none"]
    /\ workerI = [w \in PoolWorkers |-> 0]
    /\ results = 0
    /\ processor = "none"

\* the draws of a mutateString call that has not run
NoDraws == [case |-> -1, pos |-> -1, r |-> -1]

\* mutateString is not being called
MsIdle ==
    /\ msArg = <<>>
    /\ msChoice = NoDraws
    /\ msRet = <<>>
    /\ msPc = "idle"

\* the worker of CoverageFuzzer is not running
CwIdle ==
    /\ TargetPath = ""
    /\ corpus = <<>>
    /\ cwPc = "idle"
    /\ cwInput = <<>>
    /\ cwNew = FALSE
    /\ cwIter = 0

\* expandRule is not being called
ErIdle ==
    /\ erGrammar = EmptyMap
    /\ erStack = <<>>
    /\ erPc = "idle"
    /\ erResult = <<>>
    /\ erTick = 0

\* the goroutines started by crawlConcurrent for its workers
CrawlWorkers == {1, 2}

\* a crawl worker at position p
CrAt(p, url, k) == [pc |-> p, url |-> url, k |-> k]

\* no crawl is running
CrIdle ==
    /\ crSite = EmptyMap
    /\ maxPages = 0
    /\ visited = {}
    /\ stopCrawl = FALSE
    /\ urlQueue = <<>>
    /\ queueClosed = FALSE
    /\ done = FALSE
    /\ pendingWork = 0
    /\ crWorker = [w \in CrawlWorkers |-> CrAt("none", "", 0)]
    /\ crMonitor = "none"
    /\ crMain = "none"
    /\ crPolls = 0
    /\ crPanic = "none"

\* none of the parts after the worker pool is running
LaterIdle ==
    /\ MsIdle
    /\ CwIdle
    /\ ErIdle
    /\ CrIdle

\* NewCoverage: every map is empty
CovIdle ==
    /\ responses = EmptyMap
    /\ statusCodes = EmptyMap
    /\ paths = {}
    /\ params = {}
    /\ values = EmptyMap
    /\ tracked = EmptyMap
    /\ covRet = [op |-> "none", result |-> FALSE]

\* the generators are not part of the mutation loops nor of the bare tracker
GenIdle ==
    /\ variant = "none"
    /\ grammar = EmptyMap
    /\ MaxDepth = 0
    /\ stack = <<>>
    /\ pending = NoCall
    /\ calls = <<>>
    /\ choice = NoChoice
    /\ genTree = NoTree
    /\ gpc = "idle"
    /\ runs = 0
    /\ chosen = {}
    /\ genResult = "none"

InitSched ==
    /\ TrackerIdle
    /\ GenIdle
    /\ CovIdle
    /\ MwIdle
    /\ PoolIdle
    /\ LaterIdle
    /\ kind \in {"MutationFuzzer", "MutationCoverageFuzzer"}
    /\ SeedInputs \in SeqsUpTo(Inputs, MaxSeeds)
    /\ NumRequests \in {0, MaxRequests}
    /\ maxPopulation \in 0..MaxCorpusBound
    /\ population = <<>>
    /\ energies = EmptyMap
    /\ totalEnergy = 0
    /\ coverageSeen = {}
    /\ inputs = <<>>
    /\ coverage = {}
    /\ pc = "start"
    /\ seedIdx = 1
    /\ i = 0
    /\ point = -1
    /\ input = ""
    /\ mutated = ""
    /\ cov = ""
    /\ requests = 0
    /\ runResult = "none"
    /\ accepted = <<>>

config == <<kind, SeedInputs, NumRequests, maxPopulation>>
mcfState == <<population, energies, totalEnergy, coverageSeen, seedIdx, accepted>>
mfState == <<inputs, coverage>>
locals == <<point, input, mutated, cov>>

\* the locals of one loop iteration go out of scope when it ends
ResetLocals ==
    /\ point' = -1
    /\ input' = ""
    /\ mutated' = ""
    /\ cov' = ""

\* ------------------------------------------------------------------------
\* MutationCoverageFuzzer.Run
\* ------------------------------------------------------------------------
IsMCF == kind = "MutationCoverageFuzzer"

\* one pass of the seeding loop: addToPopulation(seed)
Seed ==
    /\ IsMCF /\ pc = "start"
    /\ seedIdx <= Len(SeedInputs)
    /\ SetSched(addToPopulation(Sched, SeedInputs[seedIdx]))
    /\ seedIdx' = seedIdx + 1
    /\ UNCHANGED <<gcVars, genVars, covVars, mwVars, poolVars, laterVars, config, mfState, coverageSeen, accepted, pc, i, locals, requests, runResult>>

\* the seeding loop is over: the main loop begins
SeedDone ==
    /\ IsMCF /\ pc = "start"
    /\ seedIdx > Len(SeedInputs)
    /\ pc' = "head"
    /\ UNCHANGED <<gcVars, genVars, covVars, mwVars, poolVars, laterVars, config, mfState, mcfState, i, locals, requests, runResult>>

\* i reached NumRequests: return nil
LoopExit ==
    /\ IsMCF /\ pc = "head"
    /\ i >= NumRequests
    /\ pc' = "done"
    /\ runResult' = "nil"
    /\ UNCHANGED <<gcVars, genVars, covVars, mwVars, poolVars, laterVars, config, mfState, mcfState, i, locals, requests>>

\* input := f.selectInput(), on an empty population
SelectEmpty ==
    /\ IsMCF /\ pc = "head"
    /\ i < NumRequests
    /\ Len(population) = 0
    /\ IF Len(SeedInputs) = 0
       THEN \* f.config.SeedInputs[0]: index out of range
            /\ pc' = "done"
            /\ runResult' = "panic"
            /\ UNCHANGED input
       ELSE /\ input' = SeedInputs[1]
            /\ pc' = "selected"
            /\ UNCHANGED runResult
    /\ UNCHANGED <<gcVars, genVars, covVars, mwVars, poolVars, laterVars, config, mfState, mcfState, i, point, mutated, cov, requests>>

\* input := f.selectInput(), on a non-empty population
Select ==
    /\ IsMCF /\ pc = "head"
    /\ i < NumRequests
    /\ Len(population) > 0
    /\ IF totalEnergy <= 0
       THEN \* rand.Intn panics on a non-positive argument
            /\ pc' = "done"
            /\ runResult' = "panic"
            /\ UNCHANGED <<point, input>>
       ELSE /\ \E p \in 0..(totalEnergy - 1) :
                  /\ point' = p
                  /\ input' = selectInput(Sched, p)
            /\ pc' = "selected"
            /\ UNCHANGED runResult
    /\ UNCHANGED <<gcVars, genVars, covVars, mwVars, poolVars, laterVars, config, mfState, mcfState, i, mutated, cov, requests>>

\* the mutations are applied and f.test fails: continue
TestError ==
    /\ IsMCF /\ pc = "selected"
    /\ requests' = requests + 1
    /\ i' = i + 1
    /\ pc' = "head"
    /\ ResetLocals
    /\ UNCHANGED <<gcVars, genVars, covVars, mwVars, poolVars, laterVars, config, mfState, mcfState, runResult>>

\* the mutations are applied (numMutations = 0, or a URL that does not parse,
\* leaves the input as it is), f.test succeeds and calculateCoverage gives
\* the fingerprint of the response
TestOK ==
    /\ IsMCF /\ pc = "selected"
    /\ \E m \in Inputs : mutated' = m
    /\ \E fp \in Fingerprints : cov' = fp
    /\ requests' = requests + 1
    /\ point' = -1
    /\ pc' = "tested"
    /\ UNCHANGED <<gcVars, genVars, covVars, mwVars, poolVars, laterVars, config, mfState, mcfState, i, input, runResult>>

\* isNewCoverage(coverage) reports whether the fingerprint is new and records it
isNewCoverage(seen, c) == [isNew |-> c \notin seen, coverageSeen |-> seen \cup {c}]

\* isNewCoverage is true: addToPopulation(mutated); assignEnergy(mutated, 10)
NewCoverage ==
    /\ IsMCF /\ pc = "tested"
    /\ isNewCoverage(coverageSeen, cov).isNew
    /\ coverageSeen' = isNewCoverage(coverageSeen, cov).coverageSeen
    /\ SetSched(assignEnergy(addToPopulation(Sched, mutated), mutated, 10))
    /\ accepted' = Append(accepted, mutated)
    /\ pc' = "prune"
    /\ UNCHANGED <<gcVars, genVars, covVars, mwVars, poolVars, laterVars, config, mfState, seedIdx, i, locals, requests, runResult>>

\* isNewCoverage is false: assignEnergy(input, 1)
OldCoverage ==
    /\ IsMCF /\ pc = "tested"
    /\ ~isNewCoverage(coverageSeen, cov).isNew
    /\ coverageSeen' = isNewCoverage(coverageSeen, cov).coverageSeen
    /\ SetSched(assignEnergy(Sched, input, 1))
    /\ pc' = "prune"
    /\ UNCHANGED <<gcVars, genVars, covVars, mwVars, poolVars, laterVars, config, mfState, seedIdx, accepted, i, locals, requests, runResult>>

\* f.prunePopulation() and the loop's i++
Prune ==
    /\ IsMCF /\ pc = "prune"
    /\ SetSched(prunePopulation(Sched, maxPopulation))
    /\ i' = i + 1
    /\ pc' = "head"
    /\ ResetLocals
    /\ UNCHANGED <<gcVars, genVars, covVars, mwVars, poolVars, laterVars, config, mfState, coverageSeen, seedIdx, accepted, requests, runResult>>

\* ------------------------------------------------------------------------
\* MutationFuzzer.Run
\* ------------------------------------------------------------------------
IsMF == kind = "MutationFuzzer"

\* len(f.config.SeedInputs) == 0: return the error
MFNoSeeds ==
    /\ IsMF /\ pc = "start"
    /\ Len(SeedInputs) = 0
    /\ pc' = "done"
    /\ runResult' = "error"
    /\ UNCHANGED <<gcVars, genVars, covVars, mwVars, poolVars, laterVars, config, mfState, mcfState, i, locals, requests>>

\* inputs := copy of the seeds
MFStart ==
    /\ IsMF /\ pc = "start"
    /\ Len(SeedInputs) > 0
    /\ inputs' = SeedInputs
    /\ pc' = "head"
    /\ UNCHANGED <<gcVars, genVars, covVars, mwVars, poolVars, laterVars, config, coverage, mcfState, i, locals, requests, runResult>>

\* one iteration whose f.test fails: continue
MFTestError ==
    /\ IsMF /\ pc = "head"
    /\ i < NumRequests
    /\ requests' = requests + 1
    /\ i' = i + 1
    /\ UNCHANGED <<gcVars, genVars, covVars, mwVars, poolVars, laterVars, config, mfState, mcfState, pc, locals, runResult>>

\* one iteration whose f.test succeeds: a new fingerprint admits the mutant
MFTestOK ==
    /\ IsMF /\ pc = "head"
    /\ i < NumRequests
    /\ \E k \in 1..Len(inputs), m \in Inputs, fp \in Fingerprints :
          IF fp \notin coverage
          THEN /\ coverage' = coverage \cup {fp}
               /\ inputs' = Append(inputs, m)
          ELSE UNCHANGED <<coverage, inputs>>
    /\ requests' = requests + 1
    /\ i' = i + 1
    /\ UNCHANGED <<gcVars, genVars, covVars, mwVars, poolVars, laterVars, config, mcfState, pc, locals, runResult>>

\* i reached NumRequests: return nil
MFExit ==
    /\ IsMF /\ pc = "head"
    /\ i >= NumRequests
    /\ pc' = "done"
    /\ runResult' = "nil"
    /\ UNCHANGED <<gcVars, genVars, covVars, mwVars, poolVars, laterVars, config, mfState, mcfState, i, locals, requests>>

NextSched ==
    \/ Seed \/ SeedDone \/ LoopExit \/ SelectEmpty \/ Select
    \/ TestError \/ TestOK \/ NewCoverage \/ OldCoverage \/ Prune
    \/ MFNoSeeds \/ MFStart \/ MFTestError \/ MFTestOK \/ MFExit

SpecSched == InitSched /\ [][NextSched]_vars

\* ------------------------------------------------------------------------
\* Part 2: expansion keys, derivation trees and the grammar coverage tracker
\* ------------------------------------------------------------------------
\* largest sum of the counts in covered
MaxTracked == 4

\* the chunk that stands for the separator text " -> "
Arrow == "->"

\* the empty string
Empty == <<>>

expansionKey(symbol, expansion) == symbol \o <<Arrow>> \o expansion

\* index of the first separator in key, 0 when there is none
firstArrow(key) ==
    IF \E k \in 1..Len(key) : key[k] = Arrow
    THEN CHOOSE k \in 1..Len(key) : key[k] = Arrow /\ \A j \in 1..(k - 1) : key[j] # Arrow
    ELSE 0

\* strings.SplitN(key, " -> ", 2): the text before and after the first separator
parseExpansionKey(key) ==
    IF firstArrow(key) = 0
    THEN [symbol |-> Empty, expansion |-> Empty]
    ELSE [symbol    |-> SubSeq(key, 1, firstArrow(key) - 1),
          expansion |-> SubSeq(key, firstArrow(key) + 1, Len(key))]

\* DerivationTree nodes
Leaf(symbol, value) ==
    [Symbol |-> symbol, Children |-> <<>>, Value |-> value, Expansion |-> Empty]

Node(symbol, expansion, children) ==
    [Symbol |-> symbol, Children |-> children, Value |-> Empty, Expansion |-> expansion]

RECURSIVE GetAllExpansions(_)
\* DerivationTree.GetAllExpansions: the keys of the nodes with an expansion, pre-order
GetAllExpansions(t) ==
    LET RECURSIVE ofChildren(_)
        ofChildren(k) ==
            IF k > Len(t.Children) THEN <<>>
            ELSE GetAllExpansions(t.Children[k]) \o ofChildren(k + 1)
    IN  (IF t.Expansion # Empty THEN <<expansionKey(t.Symbol, t.Expansion)>> ELSE <<>>)
        \o ofChildren(1)

RECURSIVE ToString(_)
\* DerivationTree.ToString
ToString(t) ==
    LET RECURSIVE joined(_)
        joined(k) ==
            IF k > Len(t.Children) THEN <<>>
            ELSE (IF k > 1 THEN <<" ">> ELSE <<>>) \o ToString(t.Children[k]) \o joined(k + 1)
    IN  IF Len(t.Children) = 0
        THEN (IF t.Value # Empty THEN t.Value ELSE t.Symbol)
        ELSE <<"(">> \o t.Symbol \o <<" ">> \o joined(1) \o <<")">>

\* reading gc.covered: a missing key reads as 0
CoveredCount(c, key) == IF key \in DOMAIN c THEN c[key] ELSE 0

\* gc.covered[key]++
Increment(c, key) == Put(c, key, CoveredCount(c, key) + 1)

RECURSIVE IncrementAll(_, _)
\* gc.covered[exp]++ for every exp of the list keys
IncrementAll(c, keys) ==
    IF keys = <<>> THEN c
    ELSE IncrementAll(Increment(c, Head(keys)), Tail(keys))

RECURSIVE SumOver(_, _)
\* the sum of c[k] over the keys k of the set ks
SumOver(c, ks) ==
    IF ks = {} THEN 0
    ELSE LET k == CHOOSE x \in ks : TRUE
         IN  c[k] + SumOver(c, ks \ {k})

\* the sum of the counts in covered
TotalTracked(c) == SumOver(c, DOMAIN c)

\* priorities are fractions num/den; 1.0 is 1/1
One == [num |-> 1, den |-> 1]

\* 1.0 - float64(count) / float64(total)
OneMinus(count, total) == [num |-> total - count, den |-> total]

\* updatePriorities: symbolCoverage[symbol], summed over every key of covered
\* that parses to the symbol
symbolCoverage(c, symbol) ==
    SumOver(c, {key \in DOMAIN c : parseExpansionKey(key).symbol = symbol})

\* the (symbol, expansion) pairs of the snapshot
SnapshotPairs(exps) ==
    UNION {{<<symbol, exps[symbol][k]>> : k \in 1..Len(exps[symbol])} : symbol \in DOMAIN exps}

\* updatePriorities: the new gc.priorities
updatePriorities(c, exps) ==
    LET pairs == SnapshotPairs(exps)
        pairOf(key) == CHOOSE pr \in pairs : expansionKey(pr[1], pr[2]) = key
        total(symbol) == IF symbolCoverage(c, symbol) = 0 THEN 1
                         ELSE symbolCoverage(c, symbol)
    IN  [key \in {expansionKey(pr[1], pr[2]) : pr \in pairs} |->
            IF CoveredCount(c, key) = 0 THEN One
            ELSE OneMinus(CoveredCount(c, key), total(pairOf(key)[1]))]

\* GetCoveragePriority
GetCoveragePriority(prio, symbol, expansion) ==
    IF expansionKey(symbol, expansion) \in DOMAIN prio
    THEN prio[expansionKey(symbol, expansion)]
    ELSE One

\* grammars the tracker is constructed from; no two (symbol, expansion) pairs
\* of a grammar have the same expansion key
GrammarDigits ==
    [symbol \in {<<"<start>">>, <<"<d>">>} |->
        IF symbol = <<"<start>">> THEN << <<"<d>">> >> ELSE << <<"0">>, <<"1">> >>]

\* a field named "a -> b" yields the symbol "<a -> b>"
GrammarArrowName ==
    [symbol \in {<<"<a", Arrow, "b>">>} |-> << <<"x">>, <<"y">> >>]

Grammars == {GrammarDigits, GrammarArrowName}

\* an expansion that no grammar above has
OffGrammar == <<"2">>

\* the expansions TrackExpansion is called with for a symbol
ArgExpansions(symbol) ==
    {expansions[symbol][k] : k \in 1..Len(expansions[symbol])} \cup {OffGrammar}

\* the trees TrackDerivationTree is called with
SampleTrees ==
    {Node(<<"<start>">>, <<"<d>">>, <<Node(<<"<d>">>, <<"0">>, <<Leaf(<<"0">>, <<"0">>)>>)>>),
     Node(<<"<start>">>, <<"<d>">>, <<Node(<<"<d>">>, <<"1">>, <<Leaf(<<"1">>, <<"1">>)>>)>>),
     Node(<<"<d>">>, OffGrammar, <<Leaf(OffGrammar, OffGrammar)>>),
     Node(<<"<a", Arrow, "b>">>, <<"x">>, <<Leaf(<<"x">>, <<"x">>)>>),
     Leaf(<<"<start>">>, <<"max_depth_reached">>)}

\* the mutation loops are not part of the tracker
SchedIdle ==
    /\ kind = "none"
    /\ SeedInputs = <<>>
    /\ NumRequests = 0
    /\ maxPopulation = 0
    /\ population = <<>>
    /\ energies = EmptyMap
    /\ totalEnergy = 0
    /\ coverageSeen = {}
    /\ inputs = <<>>
    /\ coverage = {}
    /\ pc = "idle"
    /\ seedIdx = 1
    /\ i = 0
    /\ point = -1
    /\ input = ""
    /\ mutated = ""
    /\ cov = ""
    /\ requests = 0
    /\ runResult = "none"
    /\ accepted = <<>>

\* NewGrammarCoverage(grammar)
InitTracker ==
    /\ SchedIdle
    /\ GenIdle
    /\ CovIdle
    /\ MwIdle
    /\ PoolIdle
    /\ LaterIdle
    /\ expansions \in Grammars
    /\ covered = EmptyMap
    /\ priorities = EmptyMap
    /\ trees = {}

\* TrackExpansion(symbol, expansion)
TrackExpansion ==
    /\ TotalTracked(covered) < MaxTracked
    /\ \E symbol \in DOMAIN expansions :
          \E expansion \in ArgExpansions(symbol) :
              /\ covered' = Increment(covered, expansionKey(symbol, expansion))
              /\ priorities' = updatePriorities(covered', expansions)
    /\ UNCHANGED <<schedVars, genVars, covVars, mwVars, poolVars, laterVars, expansions, trees>>

\* TrackDerivationTree(tree)
TrackDerivationTree ==
    /\ \E tree \in SampleTrees :
          /\ TotalTracked(covered) + Len(GetAllExpansions(tree)) <= MaxTracked
          /\ trees' = trees \cup {ToString(tree)}
          /\ covered' = IncrementAll(covered, GetAllExpansions(tree))
          /\ priorities' = updatePriorities(covered', expansions)
    /\ UNCHANGED <<schedVars, genVars, covVars, mwVars, poolVars, laterVars, expansions>>

\* only TrackExpansion is called
NextTrackExpansion == TrackExpansion

SpecTrackExpansion == InitTracker /\ [][NextTrackExpansion]_vars

\* NewGrammarCoverage on the grammar of scenario 2 of the specification
InitTrackerDigits ==
    /\ InitTracker
    /\ expansions = GrammarDigits

\* the tracking calls
NextTracking == TrackExpansion \/ TrackDerivationTree

SpecTracking == InitTrackerDigits /\ [][NextTracking]_vars

\* Reset()
Reset ==
    /\ covered' = EmptyMap
    /\ UNCHANGED <<schedVars, genVars, covVars, mwVars, poolVars, laterVars, expansions, priorities, trees>>

\* the tracking calls and Reset
NextReset == TrackExpansion \/ TrackDerivationTree \/ Reset

SpecReset == InitTrackerDigits /\ [][NextReset]_vars

\* AddExpansion is called while fewer than this many expansions are counted
MaxAdded == 2

\* AddExpansion(symbol, expansion)
AddExpansion ==
    /\ TotalTracked(covered) < MaxAdded
    /\ \E symbol \in DOMAIN expansions :
          \E expansion \in ArgExpansions(symbol) :
              covered' = Increment(covered, expansionKey(symbol, expansion))
    /\ UNCHANGED <<schedVars, genVars, covVars, mwVars, poolVars, laterVars, expansions, priorities, trees>>

\* every operation of the tracker that changes its state
NextMutating == TrackExpansion \/ TrackDerivationTree \/ AddExpansion \/ Reset

SpecMutating == InitTrackerDigits /\ [][NextMutating]_vars

\* ------------------------------------------------------------------------
\* Part 3: the grammar generators (GrammarCoverageFuzzer and
\* SystematicCoverageFuzzer): chooseExpansion, generateDerivationTree, Run
\* ------------------------------------------------------------------------
\* largest Config.MaxDepth
MaxDepthBound == 3
\* number of calls of Run
MaxRuns == 2

\* the chunk that stands for one blank
Space == " "

\* the value of the leaf that marks the depth cap
MaxDepthReached == <<"max_depth_reached">>

\* strings.Fields that does not split: the whole string is one part
FieldsWhole(s) == IF s = <<>> THEN <<>> ELSE <<s>>

\* strings.Fields(s): the maximal runs of chunks that are not blanks
Fields(s) ==
    LET RECURSIVE split(_, _, _)
        split(rest, cur, acc) ==
            IF rest = <<>>
            THEN (IF cur = <<>> THEN acc ELSE Append(acc, cur))
            ELSE IF Head(rest) = Space
                 THEN split(Tail(rest), <<>>, IF cur = <<>> THEN acc ELSE Append(acc, cur))
                 ELSE split(Tail(rest), Append(cur, Head(rest)), acc)
    IN  split(s, <<>>, <<>>)

\* the chunks whose text starts with "<", and those whose text ends with ">"
ChunksWithPrefixLt == {"<start>", "<d>", "<a>", "<b>", "<e>", "<u>", "<a"}
ChunksWithSuffixGt == {"<start>", "<d>", "<a>", "<b>", "<e>", "<u>", "b>"}

\* strings.HasPrefix(s, "<") && strings.HasSuffix(s, ">")
isNonterminal(s) ==
    /\ Len(s) > 0
    /\ s[1] \in ChunksWithPrefixLt
    /\ s[Len(s)] \in ChunksWithSuffixGt

\* f.grammar[symbol]: a missing key reads as the empty list
GrammarExpansions(g, symbol) == IF symbol \in DOMAIN g THEN g[symbol] ELSE <<>>

\* the test gc.covered[key] > 1: a key counted once still reads as uncovered
HasExpansionTwice(c, key) == CoveredCount(c, key) > 1

\* gc.covered[key] > 0
HasExpansion(c, key) == CoveredCount(c, key) > 0

\* the grammar of scenario 1 of the specification
GrammarScenario1 ==
    [symbol \in {<<"<start>">>, <<"<a>">>, <<"<b>">>} |->
        IF symbol = <<"<start>">> THEN << <<"a", Space, "b">> >>
        ELSE IF symbol = <<"<a>">> THEN << <<"x">> >>
        ELSE << <<"y">> >>]

\* the self-recursive grammar of scenario 4 of the specification
GrammarSelf ==
    [symbol \in {<<"<start>">>} |-> << <<"<start>">> >>]

\* a recursive grammar with a choice and a token "<u>" that is not a key
GrammarNested ==
    [symbol \in {<<"<start>">>, <<"<d>">>} |->
        IF symbol = <<"<start>">> THEN << <<"<start>", Space, "<u>">>, <<"<d>">> >>
        ELSE << <<"0">>, <<"1">> >>]

\* a grammar with an empty and a blank expansion (an empty option value)
GrammarBlank ==
    [symbol \in {<<"<start>">>, <<"<e>">>} |->
        IF symbol = <<"<start>">> THEN << <<"<e>", Space, "<u>">> >>
        ELSE << Empty, <<Space>>, <<"0">> >>]

\* a grammar whose start expansion has two non-terminal parts with expansions
GrammarPair ==
    [symbol \in {<<"<start>">>, <<"<a>">>, <<"<b>">>} |->
        IF symbol = <<"<start>">> THEN << <<"<a>", Space, "<b>">> >>
        ELSE IF symbol = <<"<a>">> THEN << <<"x">> >>
        ELSE << <<"y">> >>]

GenGrammars ==
    {GrammarScenario1, GrammarDigits, GrammarSelf, GrammarNested, GrammarBlank, GrammarPair}

\* ---- GrammarCoverageFuzzer.chooseExpansion --------------------------------
\* the local "priorities"
priorityList(prio, symbol, exps) ==
    [k \in 1..Len(exps) |-> GetCoveragePriority(prio, symbol, exps[k])]

RECURSIVE Gcd(_, _)
\* the greatest common divisor of a >= 0 and b >= 0
Gcd(a, b) == IF b = 0 THEN a ELSE Gcd(b, a % b)

RECURSIVE CommonDen(_)
\* the least common denominator of the fractions of the list ps
CommonDen(ps) ==
    IF ps = <<>> THEN 1
    ELSE LET rest == CommonDen(Tail(ps))
         IN  (Head(ps).den * rest) \div Gcd(Head(ps).den, rest)

\* the numerator of p over the denominator D
Scaled(p, D) == p.num * (D \div p.den)

RECURSIVE SumScaled(_, _)
\* the numerator over D of the sum of the fractions of the list ps
SumScaled(ps, D) == IF ps = <<>> THEN 0 ELSE Scaled(Head(ps), D) + SumScaled(Tail(ps), D)

\* rand.Float64() * totalPriority is drawn in steps of 1/Resolution of 1/D:
\* with 2, every partial sum and a point between any two of them is drawn
Resolution == 2

RECURSIVE weightedLoop(_, _, _, _, _)
\* the loop "sum += priority; if r <= sum return expansions[i]" from entry k on;
\* the index returned, 0 when the loop runs out
weightedLoop(ps, D, r, k, sum) ==
    IF k > Len(ps) THEN 0
    ELSE LET next == sum + Scaled(ps[k], D)
         IN  IF r <= Resolution * next THEN k ELSE weightedLoop(ps, D, r, k + 1, next)

\* no fallback: the chooser returns the zero value of string
randomChoicesZero(branch, exps) == {[branch |-> branch, r |-> -1, expansion |-> Empty]}

\* the fallback: expansions[rand.Intn(len(expansions))]
randomChoices(branch, exps) ==
    {[branch |-> branch, r |-> -1, expansion |-> exps[k]] : k \in 1..Len(exps)}

\* the outcomes of chooseExpansion(symbol, expansions) of GrammarCoverageFuzzer
weightedChoices(prio, symbol, exps) ==
    LET ps == priorityList(prio, symbol, exps)
        D  == CommonDen(ps)
        totalPriority == SumScaled(ps, D)
    IN  IF totalPriority > 0
        THEN UNION {LET k == weightedLoop(ps, D, r, 1, 0)
                    IN  IF k > 0
                        THEN {[branch |-> "weighted", r |-> r, expansion |-> exps[k]]}
                        ELSE randomChoices("fallback", exps)
                    : r \in 0..(Resolution * totalPriority - 1)}
        ELSE randomChoices("fallback", exps)

\* ---- SystematicCoverageFuzzer.chooseExpansion -----------------------------
\* precomputeExpansionCoverage: the depth used when Config.MaxDepth <= 0
DefaultMaxDepth == 10

RECURSIVE computeExpansionCoverage(_, _, _)
\* the keys computeExpansionCoverage(symbol, depth, coverage) adds to coverage
computeExpansionCoverage(g, symbol, depth) ==
    IF depth < 0 THEN {}
    ELSE LET exps == GrammarExpansions(g, symbol)
             below(e) == IF depth > 0
                         THEN UNION {computeExpansionCoverage(g, Fields(e)[j], depth - 1) :
                                        j \in {n \in 1..Len(Fields(e)) : isNonterminal(Fields(e)[n])}}
                         ELSE {}
         IN  UNION {{expansionKey(symbol, exps[k])} \cup below(exps[k]) : k \in 1..Len(exps)}

\* f.expansionCache[symbol][depth], or the empty map when it has no such entry
getMaxExpansionCoverage(g, maxDepth, symbol, depth) ==
    LET cached == IF maxDepth <= 0 THEN DefaultMaxDepth ELSE maxDepth
    IN  IF symbol \in DOMAIN g /\ depth \in 0..cached
        THEN computeExpansionCoverage(g, symbol, depth)
        ELSE {}

\* getCurrentDepth
getCurrentDepth(maxDepth) == maxDepth

\* chooseExpansion of SystematicCoverageFuzzer without its uncovered tier
systematicChoicesAll(c, g, maxDepth, symbol, exps) == randomChoices("all", exps)

\* the outcomes of chooseExpansion(symbol, expansions) of SystematicCoverageFuzzer
systematicChoices(c, g, maxDepth, symbol, exps) ==
    LET uncovered ==
            SelectSeq(exps, LAMBDA e :
                /\ ~HasExpansion(c, expansionKey(symbol, e))
                /\ getMaxExpansionCoverage(g, maxDepth, symbol, getCurrentDepth(maxDepth)) # {})
    IN  IF Len(uncovered) > 0
        THEN randomChoices("uncovered", uncovered)
        ELSE randomChoices("all", exps)

\* ---- generateDerivationTree and Run ---------------------------------------
IsGCF == variant = "GrammarCoverageFuzzer"
IsSCF == variant = "SystematicCoverageFuzzer"

\* NewGrammarCoverageFuzzer / NewSystematicCoverageFuzzer
InitGen ==
    /\ SchedIdle
    /\ CovIdle
    /\ MwIdle
    /\ PoolIdle
    /\ LaterIdle
    /\ variant \in {"GrammarCoverageFuzzer", "SystematicCoverageFuzzer"}
    /\ grammar \in GenGrammars
    /\ MaxDepth \in 0..MaxDepthBound
    /\ expansions = grammar
    /\ covered = EmptyMap
    /\ priorities = EmptyMap
    /\ trees = {}
    /\ stack = <<>>
    /\ pending = NoCall
    /\ calls = <<>>
    /\ choice = NoChoice
    /\ genTree = NoTree
    /\ gpc = "idle"
    /\ runs = 0
    /\ chosen = {}
    /\ genResult = "none"

genConfig == <<variant, grammar, MaxDepth>>

\* the depth test against MaxDepth + 1: the cap is met one level late
depthExceededLate(depth) == depth > MaxDepth + 1

\* the depth test comparing with >= : the cap is met one level early
depthExceededEarly(depth) == depth >= MaxDepth

\* depth > f.config.MaxDepth
depthExceeded(depth) == depth > MaxDepth

\* the leaf returned at the depth cap
depthCapLeaf(symbol) == Leaf(symbol, MaxDepthReached)

\* the leaf for a symbol without expansions, left without tree.Value = symbol
terminalLeafNoValue(symbol) == Leaf(symbol, Empty)

\* the leaf returned for a symbol without expansions: tree.Value = symbol
terminalLeaf(symbol) == Leaf(symbol, symbol)

\* a return whose AddChild puts the child in front of its siblings
ReturnPrepend(t, stk) ==
    IF stk = <<>>
    THEN /\ genTree' = t
         /\ gpc' = "generated"
         /\ stack' = stk
    ELSE /\ stack' = [stk EXCEPT ![Len(stk)].node.Children = <<t>> \o @]
         /\ UNCHANGED <<genTree, gpc>>

\* a call of generateDerivationTree returns t to its caller: the caller is
\* Run when the stack stk of callers is empty, else the call at its top,
\* which does tree.AddChild(t)
Return(t, stk) ==
    IF stk = <<>>
    THEN /\ genTree' = t
         /\ gpc' = "generated"
         /\ stack' = stk
    ELSE /\ stack' = [stk EXCEPT ![Len(stk)].node.Children = Append(@, t)]
         /\ UNCHANGED <<genTree, gpc>>

\* Run: tree := f.generateDerivationTree("<start>", 0)
RunStart ==
    /\ gpc = "idle"
    /\ runs < MaxRuns
    /\ pending' = [symbol |-> <<"<start>">>, depth |-> 0]
    /\ gpc' = "generate"
    /\ calls' = <<>>
    /\ choice' = NoChoice
    /\ genTree' = NoTree
    /\ genResult' = "none"
    /\ UNCHANGED <<schedVars, covVars, mwVars, poolVars, laterVars, gcVars, genConfig, stack, runs, chosen>>

\* generateDerivationTree(symbol, depth) with depth > MaxDepth
GenDepthCap ==
    /\ gpc = "generate" /\ pending # NoCall
    /\ depthExceeded(pending.depth)
    /\ Return(depthCapLeaf(pending.symbol), stack)
    /\ pending' = NoCall
    /\ choice' = NoChoice
    /\ UNCHANGED <<schedVars, covVars, mwVars, poolVars, laterVars, gcVars, genConfig, calls, runs, chosen, genResult>>

\* generateDerivationTree(symbol, depth) on a symbol without expansions
GenTerminal ==
    /\ gpc = "generate" /\ pending # NoCall
    /\ ~depthExceeded(pending.depth)
    /\ Len(GrammarExpansions(grammar, pending.symbol)) = 0
    /\ Return(terminalLeaf(pending.symbol), stack)
    /\ pending' = NoCall
    /\ choice' = NoChoice
    /\ UNCHANGED <<schedVars, covVars, mwVars, poolVars, laterVars, gcVars, genConfig, calls, runs, chosen, genResult>>

\* the outcomes of f.chooseExpansion(symbol, expansions)
chooseExpansion(symbol, exps) ==
    IF IsSCF
    THEN systematicChoices(covered, grammar, MaxDepth, symbol, exps)
    ELSE weightedChoices(priorities, symbol, exps)

\* generateDerivationTree(symbol, depth) up to its loop over the parts:
\* chooseExpansion, TrackExpansion, strings.Fields
GenExpand ==
    /\ gpc = "generate" /\ pending # NoCall
    /\ ~depthExceeded(pending.depth)
    /\ Len(GrammarExpansions(grammar, pending.symbol)) > 0
    /\ \E ch \in chooseExpansion(pending.symbol, GrammarExpansions(grammar, pending.symbol)) :
          /\ choice' = ch
          /\ covered' = Increment(covered, expansionKey(pending.symbol, ch.expansion))
          /\ priorities' = updatePriorities(covered', expansions)
          /\ calls' = Append(calls, <<pending.symbol, ch.expansion>>)
          /\ chosen' = chosen \cup {<<pending.symbol, ch.expansion>>}
          /\ stack' = Append(stack, [node  |-> Node(pending.symbol, ch.expansion, <<>>),
                                     parts |-> Fields(ch.expansion),
                                     depth |-> pending.depth])
    /\ pending' = NoCall
    /\ UNCHANGED <<schedVars, covVars, mwVars, poolVars, laterVars, expansions, trees, genConfig, genTree, gpc, runs,
                   genResult>>

\* one pass of the loop over the parts: a non-terminal part starts the call
\* generateDerivationTree(part, depth+1), any other part becomes a leaf
GenPart ==
    /\ gpc = "generate" /\ pending = NoCall
    /\ stack # <<>>
    /\ LET top == stack[Len(stack)]
       IN  /\ top.parts # <<>>
           /\ IF isNonterminal(Head(top.parts))
              THEN /\ pending' = [symbol |-> Head(top.parts), depth |-> top.depth + 1]
                   /\ stack' = [stack EXCEPT ![Len(stack)].parts = Tail(@)]
              ELSE /\ pending' = NoCall
                   /\ stack' = [stack EXCEPT
                                  ![Len(stack)].parts = Tail(@),
                                  ![Len(stack)].node.Children =
                                      Append(@, Leaf(Head(top.parts), Head(top.parts)))]
    /\ choice' = NoChoice
    /\ UNCHANGED <<schedVars, covVars, mwVars, poolVars, laterVars, gcVars, genConfig, calls, genTree, gpc, runs, chosen, genResult>>

\* the loop over the parts is over: return tree
GenReturn ==
    /\ gpc = "generate" /\ pending = NoCall
    /\ stack # <<>>
    /\ stack[Len(stack)].parts = <<>>
    /\ Return(stack[Len(stack)].node, SubSeq(stack, 1, Len(stack) - 1))
    /\ choice' = NoChoice
    /\ UNCHANGED <<schedVars, covVars, mwVars, poolVars, laterVars, gcVars, genConfig, pending, calls, runs, chosen, genResult>>

\* GrammarCoverageFuzzer.treeToString: the values of the leaves, concatenated
RECURSIVE treeToString(_)
treeToString(t) ==
    LET RECURSIVE ofChildren(_)
        ofChildren(k) ==
            IF k > Len(t.Children) THEN <<>>
            ELSE treeToString(t.Children[k]) \o ofChildren(k + 1)
    IN  IF Len(t.Children) = 0 THEN t.Value ELSE ofChildren(1)

\* Run: f.grammarCoverage.TrackDerivationTree(tree)
RunTrackTree ==
    /\ gpc = "generated"
    /\ trees' = trees \cup {ToString(genTree)}
    /\ covered' = IncrementAll(covered, GetAllExpansions(genTree))
    /\ priorities' = updatePriorities(covered', expansions)
    /\ gpc' = "tracked"
    /\ UNCHANGED <<schedVars, covVars, mwVars, poolVars, laterVars, expansions, genConfig, stack, pending, calls, choice, genTree, runs, chosen, genResult>>

\* Run: the input treeToString(tree) is tested, result.Error is nil: return nil
\* (testInput hands the response and the URL to the Coverage object, whose
\* operations are the actions of Part 4; the generators never read it)
RunReturn ==
    /\ gpc = "tracked"
    /\ runs' = runs + 1
    /\ gpc' = "idle"
    /\ genResult' = "nil"
    /\ UNCHANGED <<schedVars, covVars, mwVars, poolVars, laterVars, gcVars, genConfig, stack, pending, calls, choice,
                   genTree, chosen>>

\* Run: the request of testInput fails, result.Error is the transport error:
\* return result.Error
RunReturnError ==
    /\ gpc = "tracked"
    /\ runs' = runs + 1
    /\ gpc' = "idle"
    /\ genResult' = "error"
    /\ UNCHANGED <<schedVars, covVars, mwVars, poolVars, laterVars, gcVars, genConfig, stack, pending, calls, choice,
                   genTree, chosen>>

NextGen ==
    \/ RunStart \/ GenDepthCap \/ GenTerminal \/ GenExpand \/ GenPart \/ GenReturn
    \/ RunTrackTree \/ RunReturn \/ RunReturnError

SpecGen == InitGen /\ [][NextGen]_vars

\* ------------------------------------------------------------------------
\* Part 4: the response coverage tracker (Coverage): TrackResponse,
\* TrackURL, HasNewCoverage, GetStats
\* ------------------------------------------------------------------------
\* largest number of TrackResponse calls
MaxTrackedResponses == 2

\* the responses: resp.StatusCode, the body the server sends, and whether
\* io.ReadAll(resp.Body) fails before the body is complete
Responses == [StatusCode : {200, 404}, Body : {"ok", "no"}, readErr : BOOLEAN]

\* fmt.Sprintf("%x", sha256.Sum256(body)), its first eight digits
sha256Hex(body) == IF body = "ok" THEN "2689367b" ELSE "9390298f"

\* TrackResponse whose isNew does not look at the status code
trackResponseBodyOnly(sc, rs, resp) ==
    IF resp.readErr
    THEN [statusCodes |-> Increment(sc, resp.StatusCode), responses |-> rs, isNew |-> FALSE]
    ELSE [statusCodes |-> Increment(sc, resp.StatusCode),
          responses   |-> Increment(rs, sha256Hex(resp.Body)),
          isNew       |-> sha256Hex(resp.Body) \notin DOMAIN rs]

\* Coverage.TrackResponse(resp) on the maps sc = c.statusCodes and
\* rs = c.responses: the maps it leaves and the value it returns
trackResponse(sc, rs, resp) ==
    LET newStatus == resp.StatusCode \notin DOMAIN sc
        hash      == sha256Hex(resp.Body)
    IN  IF resp.readErr
        THEN [statusCodes |-> Increment(sc, resp.StatusCode), responses |-> rs,
              isNew |-> newStatus]
        ELSE [statusCodes |-> Increment(sc, resp.StatusCode),
              responses   |-> Increment(rs, hash),
              isNew       |-> newStatus \/ hash \notin DOMAIN rs]

\* the URL strings, as sequences of chunks: a path, then "?" and the pairs
\* name=value separated by "&"; "%zz" is an invalid escape
URLStrings ==
    { <<"%zz">>,
      <<"/a">>,
      <<"/a", "?", "p=1">>,
      <<"/a", "?", "p=1", "&", "p=2">>,
      <<"/b", "?", "q=1">>,
      <<"/a", "?", "p=2", "&", "q=1">> }

\* the name and the value of a pair name=value
PairParam(pair) == IF pair \in {"p=1", "p=2"} THEN "p" ELSE "q"
PairValue(pair) == IF pair \in {"p=1", "q=1"} THEN "1" ELSE "2"

\* url.Parse(urlStr) with parsedURL.Path and parsedURL.Query(): the query maps
\* each parameter to the list of its values, in the order of the pairs
Parse(urlStr) ==
    LET pairs == [k \in 1..((Len(urlStr) - 1) \div 2) |-> urlStr[2 * k + 1]]
        names == {PairParam(pairs[k]) : k \in 1..Len(pairs)}
        valuesOf(param) ==
            LET mine == SelectSeq(pairs, LAMBDA pair : PairParam(pair) = param)
            IN  [k \in 1..Len(mine) |-> PairValue(mine[k])]
    IN  [err   |-> urlStr[1] = "%zz",
         Path  |-> urlStr[1],
         Query |-> [param \in names |-> valuesOf(param)]]

\* c.values[param] as a set; a missing key (nil) reads as no value
ValuesOf(vs, param) == IF param \in DOMAIN vs THEN vs[param] ELSE {}

\* the Coverage fields TrackURL and HasNewCoverage use
urlCoverage == [paths |-> paths, params |-> params, values |-> values]

\* TrackURL that does not record the values of the parameters
trackURLNoValues(c, urlStr) ==
    LET parsedURL == Parse(urlStr)
    IN  IF parsedURL.err
        THEN [paths |-> c.paths, params |-> c.params, values |-> c.values, isNew |-> FALSE]
        ELSE [paths  |-> c.paths \cup {parsedURL.Path},
              params |-> c.params \cup DOMAIN parsedURL.Query,
              values |-> c.values,
              isNew  |-> \/ parsedURL.Path \notin c.paths
                         \/ \E param \in DOMAIN parsedURL.Query : param \notin c.params]

\* Coverage.TrackURL(urlStr) on the fields c: the fields it leaves and the
\* value it returns
trackURL(c, urlStr) ==
    LET parsedURL == Parse(urlStr)
        query     == parsedURL.Query
    IN  IF parsedURL.err
        THEN [paths |-> c.paths, params |-> c.params, values |-> c.values, isNew |-> FALSE]
        ELSE [paths  |-> c.paths \cup {parsedURL.Path},
              params |-> c.params \cup DOMAIN query,
              values |-> [param \in DOMAIN c.values \cup DOMAIN query |->
                            ValuesOf(c.values, param) \cup
                            (IF param \in DOMAIN query
                             THEN {query[param][k] : k \in 1..Len(query[param])}
                             ELSE {})],
              isNew  |-> \/ parsedURL.Path \notin c.paths
                         \/ \E param \in DOMAIN query :
                               \/ param \notin c.params
                               \/ \E k \in 1..Len(query[param]) :
                                     query[param][k] \notin ValuesOf(c.values, param)]

\* Coverage.HasNewCoverage(urlStr) on the fields c
hasNewCoverage(c, urlStr) ==
    LET parsedURL == Parse(urlStr)
        query     == parsedURL.Query
    IN  IF parsedURL.err THEN FALSE
        ELSE \/ parsedURL.Path \notin c.paths
             \/ \E param \in DOMAIN query :
                   \/ param \notin c.params
                   \/ param \notin DOMAIN c.values
                   \/ \E k \in 1..Len(query[param]) : query[param][k] \notin c.values[param]

\* GetStats: stats["unique_responses"] and stats["status_codes"]
unique_responses == Cardinality(DOMAIN responses)
status_codes == statusCodes

\* the number of TrackResponse calls made so far
TrackedCalls == SumOver(tracked, DOMAIN tracked)

\* NewCoverage()
InitCoverage ==
    /\ SchedIdle
    /\ TrackerIdle
    /\ GenIdle
    /\ CovIdle
    /\ MwIdle
    /\ PoolIdle
    /\ LaterIdle

\* c.TrackResponse(resp)
trackResponseCall(resp) ==
    /\ TrackedCalls < MaxTrackedResponses
    /\ LET out == trackResponse(statusCodes, responses, resp)
       IN  /\ statusCodes' = out.statusCodes
           /\ responses' = out.responses
           /\ covRet' = [op |-> "TrackResponse", result |-> out.isNew]
    /\ tracked' = Increment(tracked, resp)
    /\ UNCHANGED <<schedVars, gcVars, genVars, mwVars, poolVars, laterVars, paths, params, values>>

TrackResponse == \E resp \in Responses : trackResponseCall(resp)

\* c.TrackURL(urlStr)
trackURLCall(urlStr) ==
    /\ LET out == trackURL(urlCoverage, urlStr)
       IN  /\ paths' = out.paths
           /\ params' = out.params
           /\ values' = out.values
           /\ covRet' = [op |-> "TrackURL", result |-> out.isNew]
    /\ UNCHANGED <<schedVars, gcVars, genVars, mwVars, poolVars, laterVars, responses, statusCodes, tracked>>

TrackURL == \E urlStr \in URLStrings : trackURLCall(urlStr)

\* c.HasNewCoverage(urlStr)
hasNewCoverageCall(urlStr) ==
    /\ covRet' = [op |-> "HasNewCoverage", result |-> hasNewCoverage(urlCoverage, urlStr)]
    /\ UNCHANGED <<schedVars, gcVars, genVars, mwVars, poolVars, laterVars, responses, statusCodes, paths, params, values,
                   tracked>>

HasNewCoverage == \E urlStr \in URLStrings : hasNewCoverageCall(urlStr)

NextCoverage == TrackResponse \/ TrackURL \/ HasNewCoverage

SpecCoverage == InitCoverage /\ [][NextCoverage]_vars

\* ------------------------------------------------------------------------
\* Part 5: the body of the main loop of MutationCoverageFuzzer.Run executed
\* by several workers on one scheduler. Only coverageSeen has a lock
\* (coverageLock, taken inside isNewCoverage); population, energies and
\* totalEnergy are read and written without one, so every access to them is
\* a step of its own
\* ------------------------------------------------------------------------
\* number of loop iterations of a worker
MaxWorkerIters == 1

\* what the worker actions leave alone besides the scheduler fields
workerFrame == <<gcVars, genVars, covVars, poolVars, laterVars, config, mfState, pc, seedIdx, i, locals,
                 requests, runResult, accepted>>

\* the scheduler after the seeding loop of Run on the seed list ["a"], with
\* maxPopulation = 2
InitWorkers ==
    /\ TrackerIdle
    /\ GenIdle
    /\ CovIdle
    /\ MwIdle
    /\ PoolIdle
    /\ LaterIdle
    /\ kind = "MutationCoverageFuzzer"
    /\ SeedInputs = <<"a">>
    /\ NumRequests = MaxWorkerIters
    /\ maxPopulation = 2
    /\ population = <<"a">>
    /\ energies = Put(EmptyMap, "a", 1)
    /\ totalEnergy = 1
    /\ coverageSeen = {}
    /\ inputs = <<>>
    /\ coverage = {}
    /\ pc = "head"
    /\ seedIdx = 2
    /\ i = 0
    /\ point = -1
    /\ input = ""
    /\ mutated = ""
    /\ cov = ""
    /\ requests = 0
    /\ runResult = "none"
    /\ accepted = <<>>

\* worker w moves to position to with the locals loc
Goto(w, to, loc) ==
    /\ wpc' = [wpc EXCEPT ![w] = to]
    /\ wloc' = [wloc EXCEPT ![w] = loc]

\* selectInput (with totalEnergy > 0), the mutations and f.test, which
\* fails: continue
WTestError(w) ==
    /\ wpc[w] = "loop" /\ wloc[w].iter < MaxWorkerIters
    /\ Len(population) > 0 /\ totalEnergy > 0
    /\ Goto(w, "loop", NoLocals(wloc[w].iter + 1))
    /\ UNCHANGED <<workerFrame, population, energies, totalEnergy, coverageSeen>>

\* selectInput, the mutations, f.test and calculateCoverage; with
\* totalEnergy <= 0 rand.Intn panics inside selectInput
WTestOK(w) ==
    /\ wpc[w] = "loop" /\ wloc[w].iter < MaxWorkerIters
    /\ Len(population) > 0
    /\ IF totalEnergy <= 0
       THEN Goto(w, "panic", wloc[w])
       ELSE \E p \in 0..(totalEnergy - 1), m \in Inputs, c \in Fingerprints :
               Goto(w, "isNewCoverage",
                    [wloc[w] EXCEPT !.input = selectInput(Sched, p), !.mutated = m, !.cov = c])
    /\ UNCHANGED <<workerFrame, population, energies, totalEnergy, coverageSeen>>

\* f.isNewCoverage(coverage), under coverageLock
WIsNewCoverage(w) ==
    /\ wpc[w] = "isNewCoverage"
    /\ coverageSeen' = isNewCoverage(coverageSeen, wloc[w].cov).coverageSeen
    /\ IF isNewCoverage(coverageSeen, wloc[w].cov).isNew
       THEN Goto(w, "append", wloc[w])
       ELSE Goto(w, "oldEnergy", [wloc[w] EXCEPT !.target = wloc[w].input, !.energy = 1])
    /\ UNCHANGED <<workerFrame, population, energies, totalEnergy>>

\* addToPopulation: f.population = append(f.population, input)
WAppend(w) ==
    /\ wpc[w] = "append"
    /\ population' = Append(population, wloc[w].mutated)
    /\ Goto(w, "setOne", wloc[w])
    /\ UNCHANGED <<workerFrame, energies, totalEnergy, coverageSeen>>

\* addToPopulation: f.energies[input] = 1
WSetOne(w) ==
    /\ wpc[w] = "setOne"
    /\ energies' = Put(energies, wloc[w].mutated, 1)
    /\ Goto(w, "incRead", wloc[w])
    /\ UNCHANGED <<workerFrame, population, totalEnergy, coverageSeen>>

\* addToPopulation: f.totalEnergy++, the read
WIncRead(w) ==
    /\ wpc[w] = "incRead"
    /\ Goto(w, "incWrite", [wloc[w] EXCEPT !.read = totalEnergy])
    /\ UNCHANGED <<workerFrame, population, energies, totalEnergy, coverageSeen>>

\* addToPopulation: f.totalEnergy++, the write; then f.assignEnergy(mutated, 10)
WIncWrite(w) ==
    /\ wpc[w] = "incWrite"
    /\ totalEnergy' = wloc[w].read + 1
    /\ Goto(w, "oldEnergy", [wloc[w] EXCEPT !.target = wloc[w].mutated, !.energy = 10])
    /\ UNCHANGED <<workerFrame, population, energies, coverageSeen>>

\* assignEnergy: oldEnergy := f.energies[input]
WOldEnergy(w) ==
    /\ wpc[w] = "oldEnergy"
    /\ Goto(w, "setEnergy", [wloc[w] EXCEPT !.oldEnergy = Energy(energies, wloc[w].target)])
    /\ UNCHANGED <<workerFrame, population, energies, totalEnergy, coverageSeen>>

\* assignEnergy: f.energies[input] = energy
WSetEnergy(w) ==
    /\ wpc[w] = "setEnergy"
    /\ energies' = Put(energies, wloc[w].target, wloc[w].energy)
    /\ Goto(w, "totalRead", wloc[w])
    /\ UNCHANGED <<workerFrame, population, totalEnergy, coverageSeen>>

\* assignEnergy: f.totalEnergy = f.totalEnergy - oldEnergy + energy, the read
WTotalRead(w) ==
    /\ wpc[w] = "totalRead"
    /\ Goto(w, "totalWrite", [wloc[w] EXCEPT !.read = totalEnergy])
    /\ UNCHANGED <<workerFrame, population, energies, totalEnergy, coverageSeen>>

\* assignEnergy: f.totalEnergy = f.totalEnergy - oldEnergy + energy, the write
WTotalWrite(w) ==
    /\ wpc[w] = "totalWrite"
    /\ totalEnergy' = wloc[w].read - wloc[w].oldEnergy + wloc[w].energy
    /\ Goto(w, "prune", wloc[w])
    /\ UNCHANGED <<workerFrame, population, energies, coverageSeen>>

\* f.prunePopulation() and the end of the iteration
WPrune(w) ==
    /\ wpc[w] = "prune"
    /\ SetSched(prunePopulation(Sched, maxPopulation))
    /\ Goto(w, "loop", NoLocals(wloc[w].iter + 1))
    /\ UNCHANGED <<workerFrame, coverageSeen>>

NextWorkers ==
    \E w \in Workers :
        \/ WTestError(w) \/ WTestOK(w) \/ WIsNewCoverage(w)
        \/ WAppend(w) \/ WSetOne(w) \/ WIncRead(w) \/ WIncWrite(w)
        \/ WOldEnergy(w) \/ WSetEnergy(w) \/ WTotalRead(w) \/ WTotalWrite(w)
        \/ WPrune(w)

SpecWorkers == InitWorkers /\ [][NextWorkers]_vars

\* ------------------------------------------------------------------------
\* Part 6: the worker pool of Fuzzer.Run and CoverageFuzzer.Run
\* ------------------------------------------------------------------------
\* what the pool actions leave alone besides the request count
poolFrame == <<gcVars, genVars, covVars, mwVars, laterVars, config, mfState, mcfState, pc, i, locals,
               runResult>>

\* worker: the bound of its loop, NumRequests/Concurrency in integer arithmetic
requestsPerWorker == NumRequests \div Concurrency

\* New on a configuration that validateConfig accepts, then the call of Run
InitPool ==
    /\ TrackerIdle
    /\ GenIdle
    /\ CovIdle
    /\ MwIdle
    /\ LaterIdle
    /\ kind \in {"Fuzzer", "CoverageFuzzer"}
    /\ NumRequests \in 1..MaxRequests
    /\ Concurrency \in 1..MaxConcurrency
    /\ SeedInputs = <<>>
    /\ maxPopulation = 0
    /\ population = <<>>
    /\ energies = EmptyMap
    /\ totalEnergy = 0
    /\ coverageSeen = {}
    /\ inputs = <<>>
    /\ coverage = {}
    /\ pc = "idle"
    /\ seedIdx = 1
    /\ i = 0
    /\ point = -1
    /\ input = ""
    /\ mutated = ""
    /\ cov = ""
    /\ requests = 0
    /\ runResult = "none"
    /\ accepted = <<>>
    /\ ppc = "spawn"
    /\ spawned = 0
    /\ workerPc = [w \in PoolWorkers |-> "none"]
    /\ workerI = [w \in PoolWorkers |-> 0]
    /\ results = 0
    /\ processor = "starting"

\* Run: for i := 0; i < Concurrency; i++ { wg.Add(1); go f.worker(...) }
PoolSpawn ==
    /\ ppc = "spawn"
    /\ spawned < Concurrency
    /\ spawned' = spawned + 1
    /\ workerPc' = [workerPc EXCEPT ![spawned + 1] = "head"]
    /\ UNCHANGED <<poolFrame, processor, requests, Concurrency, ppc, workerI, results>>

\* Run: every worker is started, wg.Wait() is reached
PoolWait ==
    /\ ppc = "spawn"
    /\ ~(spawned < Concurrency)
    /\ ppc' = "wait"
    /\ UNCHANGED <<poolFrame, processor, requests, Concurrency, spawned, workerPc, workerI, results>>

\* worker: i < NumRequests/Concurrency, and one request is made (testPayload in
\* Fuzzer, testInput in CoverageFuzzer); the context of Run is cancelled only
\* when Run returns, so the select takes its default branch
PoolRequest(w) ==
    /\ workerPc[w] = "head"
    /\ workerI[w] < requestsPerWorker
    /\ requests' = requests + 1
    /\ workerPc' = [workerPc EXCEPT ![w] = "send"]
    /\ UNCHANGED <<poolFrame, processor, Concurrency, ppc, spawned, workerI, results>>

\* worker: results <- result on the channel of capacity Concurrency, then i++
PoolSend(w) ==
    /\ workerPc[w] = "send"
    /\ results < Concurrency
    /\ results' = results + 1
    /\ workerI' = [workerI EXCEPT ![w] = @ + 1]
    /\ workerPc' = [workerPc EXCEPT ![w] = "head"]
    /\ UNCHANGED <<poolFrame, processor, requests, Concurrency, ppc, spawned>>

\* worker: the loop condition fails, the deferred wg.Done() runs
PoolWorkerDone(w) ==
    /\ workerPc[w] = "head"
    /\ ~(workerI[w] < requestsPerWorker)
    /\ workerPc' = [workerPc EXCEPT ![w] = "done"]
    /\ UNCHANGED <<poolFrame, processor, requests, Concurrency, ppc, spawned, workerI, results>>

\* go processResults: Fuzzer's creates the results file first and, when
\* os.Create fails, logs the error and returns; CoverageFuzzer's only ranges
\* over the channel
PoolOpenFail ==
    /\ processor = "starting"
    /\ kind = "Fuzzer"
    /\ processor' = "exited"
    /\ UNCHANGED <<poolFrame, requests, Concurrency, ppc, spawned, workerPc, workerI, results>>

\* processResults reaches its loop over the results channel
PoolOpenOK ==
    /\ processor = "starting"
    /\ processor' = "running"
    /\ UNCHANGED <<poolFrame, requests, Concurrency, ppc, spawned, workerPc, workerI, results>>

\* processResults: one result is taken from the channel
PoolProcess ==
    /\ processor = "running"
    /\ results > 0
    /\ results' = results - 1
    /\ UNCHANGED <<poolFrame, processor, requests, Concurrency, ppc, spawned, workerPc, workerI>>

\* Run: wg.Wait() returns once every worker is done; close(results); return nil
PoolReturn ==
    /\ ppc = "wait"
    /\ \A w \in 1..Concurrency : workerPc[w] = "done"
    /\ ppc' = "returned"
    /\ UNCHANGED <<poolFrame, processor, requests, Concurrency, spawned, workerPc, workerI, results>>

\* the steps of the goroutine of worker w
PoolWorker(w) == PoolRequest(w) \/ PoolSend(w) \/ PoolWorkerDone(w)

NextPool ==
    \/ PoolSpawn \/ PoolWait \/ PoolReturn
    \/ PoolOpenFail \/ PoolOpenOK \/ PoolProcess
    \/ \E w \in PoolWorkers : PoolWorker(w)

SpecPool == InitPool /\ [][NextPool]_vars

\* the Go scheduler runs every goroutine that can take a step
SpecPoolFair ==
    /\ SpecPool
    /\ WF_vars(PoolSpawn \/ PoolWait \/ PoolReturn)
    /\ WF_vars(PoolOpenFail \/ PoolOpenOK \/ PoolProcess)
    /\ \A w \in PoolWorkers : WF_vars(PoolWorker(w))

\* ------------------------------------------------------------------------
\* Part 7: MutationFuzzer.mutateString
\* ------------------------------------------------------------------------
\* longest argument of mutateString
MaxStrLen == 2

\* the bytes the arguments are made of: an ASCII letter, the largest ASCII
\* byte, and bytes with the top bit set
SampleBytes == {65, 127, 128, 195, 255}

\* the arguments of mutateString
SampleStrings == UNION {[1..n -> SampleBytes] : n \in 0..MaxStrLen}

\* the string "fuzz"
FuzzString == <<102, 117, 122, 122>>

\* the specials list of mutateString, each string as its bytes
specials ==
    <<
       <<46, 46, 47, 46, 46, 47, 46, 46, 47, 101, 116, 99, 47, 112, 97, 115,
       115, 119, 100>>,
       <<60, 115, 99, 114, 105, 112, 116, 62, 97, 108, 101, 114, 116, 40, 49,
       41, 60, 47, 115, 99, 114, 105, 112, 116, 62>>,
       <<39, 32, 79, 82, 32, 39, 49, 39, 61, 39, 49>>,
       <<37, 48, 48>>,
       <<46, 46, 47, 46, 46, 47, 46, 46, 47, 46, 46, 47, 101, 116, 99, 47,
       112, 97, 115, 115, 119, 100, 37, 48, 48>>,
       <<36, 40, 99, 97, 116, 32, 47, 101, 116, 99, 47, 112, 97, 115, 115,
       119, 100, 41>>,
       <<123, 123, 55, 42, 55, 125, 125>>
    >>

\* char ^ byte(1 << bit) on a byte
xorBit(char, bit) ==
    IF (char \div (2 ^ bit)) % 2 = 1 THEN char - (2 ^ bit) ELSE char + (2 ^ bit)

\* string(char) on a byte: the conversion of an integer to a string gives
\* the UTF-8 encoding of the code point char
byteToString(char) ==
    IF char < 128 THEN <<char>> ELSE <<192 + (char \div 64), 128 + (char % 64)>>

\* s[lo:hi] with Go's zero-based half-open bounds
Slice(s, lo, hi) == SubSeq(s, lo + 1, hi)

\* mutateString(s) when its rand.Intn calls return d.case, d.pos and d.r
mutateString(s, d) ==
    IF s = <<>> THEN FuzzString
    ELSE IF d.case = 0
         THEN Slice(s, 0, d.pos) \o byteToString(xorBit(s[d.pos + 1], d.r))
                  \o Slice(s, d.pos + 1, Len(s))
    ELSE IF d.case = 1
         THEN Slice(s, 0, d.pos) \o byteToString(d.r) \o Slice(s, d.pos, Len(s))
    ELSE IF d.case = 2
         THEN Slice(s, 0, d.pos) \o Slice(s, d.pos + 1, Len(s))
    ELSE specials[d.r + 1]

\* a call of mutateString on a sample string
InitMutate ==
    /\ SchedIdle
    /\ TrackerIdle
    /\ GenIdle
    /\ CovIdle
    /\ MwIdle
    /\ PoolIdle
    /\ CwIdle
    /\ ErIdle
    /\ CrIdle
    /\ msArg \in SampleStrings
    /\ msChoice = NoDraws
    /\ msRet = <<>>
    /\ msPc = "call"

\* the call returns what mutateString computes for the draws d
MsReturn(d) ==
    /\ msChoice' = d
    /\ msRet' = mutateString(msArg, d)
    /\ msPc' = "done"
    /\ UNCHANGED <<schedVars, gcVars, genVars, covVars, mwVars, poolVars, cwVars, erVars, crVars, msArg>>

\* if s == "" { return "fuzz" }
MutateEmpty ==
    /\ msPc = "call"
    /\ msArg = <<>>
    /\ MsReturn(NoDraws)

\* case 0: pos := rand.Intn(len(s)), one of the 8 bits of s[pos] is flipped
BitFlip ==
    /\ msPc = "call"
    /\ msArg # <<>>
    /\ \E pos \in 0..(Len(msArg) - 1), bit \in 0..7 :
           MsReturn([case |-> 0, pos |-> pos, r |-> bit])

\* case 1: pos := rand.Intn(len(s) + 1), byte(rand.Intn(256)) is inserted
\* (the inserted bytes are drawn from SampleBytes)
InsertChar ==
    /\ msPc = "call"
    /\ msArg # <<>>
    /\ \E pos \in 0..Len(msArg), char \in SampleBytes :
           MsReturn([case |-> 1, pos |-> pos, r |-> char])

\* case 2: pos := rand.Intn(len(s)), s[pos] is deleted
DeleteChar ==
    /\ msPc = "call"
    /\ msArg # <<>>
    /\ \E pos \in 0..(Len(msArg) - 1) :
           MsReturn([case |-> 2, pos |-> pos, r |-> -1])

\* case 3: one of the specials replaces s
ReplaceSpecial ==
    /\ msPc = "call"
    /\ msArg # <<>>
    /\ \E k \in 0..(Len(specials) - 1) :
           MsReturn([case |-> 3, pos |-> -1, r |-> k])

NextMutate ==
    MutateEmpty \/ BitFlip \/ InsertChar \/ DeleteChar \/ ReplaceSpecial

SpecMutate == InitMutate /\ [][NextMutate]_vars

\* ------------------------------------------------------------------------
\* Part 8: the loop body of CoverageFuzzer.worker: generateInput, testInput
\* (which tracks the response and the full URL), then the HasNewCoverage
\* check that guards the append to the corpus
\* ------------------------------------------------------------------------
\* number of loop iterations of the worker (NumRequests/Concurrency)
MaxCwIters == 2

\* the paths of the target URLs: none (http://host) and /t (http://host/t)
TargetPaths == {"", "/t"}

\* the text prefix + path
Concat(prefix, path) ==
    IF prefix = "" THEN path
    ELSE IF path = "/a" THEN "/t/a"
    ELSE IF path = "/b" THEN "/t/b"
    ELSE "/t%zz"

\* testInput: fullURL is the input itself when it is absolute, else
\* f.config.TargetURL + input. An absolute input has the path it names, as a
\* relative input under a target without a path has
fullURL(target, urlStr) == [urlStr EXCEPT ![1] = Concat(target, urlStr[1])]

\* NewCoverageFuzzer, then the worker at the head of its loop
InitCovWorker ==
    /\ SchedIdle
    /\ TrackerIdle
    /\ GenIdle
    /\ CovIdle
    /\ MwIdle
    /\ PoolIdle
    /\ MsIdle
    /\ ErIdle
    /\ CrIdle
    /\ TargetPath \in TargetPaths
    /\ corpus = <<>>
    /\ cwPc = "head"
    /\ cwInput = <<>>
    /\ cwNew = FALSE
    /\ cwIter = 0

\* what the worker leaves alone besides the Coverage fields and its own state
cwFrame == <<schedVars, gcVars, genVars, mwVars, poolVars, msVars, erVars, crVars, TargetPath>>

\* i < requestsPerWorker; input := f.generateInput(), a URL of the grammar or
\* a mutation of a corpus entry
CwGenerate ==
    /\ cwPc = "head"
    /\ cwIter < MaxCwIters
    /\ \E urlStr \in URLStrings : cwInput' = urlStr
    /\ cwNew' = FALSE
    /\ cwPc' = "test"
    /\ UNCHANGED <<cwFrame, covVars, corpus, cwIter>>

\* testInput: f.client.Get(fullURL) fails (always for a URL that does not
\* parse), nothing is tracked
CwTestError ==
    /\ cwPc = "test"
    /\ cwPc' = "check"
    /\ UNCHANGED <<cwFrame, covVars, corpus, cwInput, cwNew, cwIter>>

\* testInput: the request succeeds; f.coverage.TrackResponse(resp) and
\* f.coverage.TrackURL(fullURL)
CwTestOK ==
    /\ cwPc = "test"
    /\ ~Parse(cwInput).err
    /\ \E resp \in Responses :
           LET out  == trackResponse(statusCodes, responses, resp)
               outU == trackURL(urlCoverage, fullURL(TargetPath, cwInput))
           IN  /\ statusCodes' = out.statusCodes
               /\ responses' = out.responses
               /\ tracked' = Increment(tracked, resp)
               /\ paths' = outU.paths
               /\ params' = outU.params
               /\ values' = outU.values
               /\ covRet' = [op |-> "TrackURL", result |-> outU.isNew]
               /\ cwNew' = outU.isNew
    /\ cwPc' = "check"
    /\ UNCHANGED <<cwFrame, corpus, cwInput, cwIter>>

\* if f.coverage.HasNewCoverage(input) { f.corpus = append(f.corpus, input) }
\* and the end of the iteration
CwCheck ==
    /\ cwPc = "check"
    /\ covRet' = [op |-> "HasNewCoverage", result |-> hasNewCoverage(urlCoverage, cwInput)]
    /\ corpus' = IF hasNewCoverage(urlCoverage, cwInput)
                 THEN Append(corpus, cwInput) ELSE corpus
    /\ cwIter' = cwIter + 1
    /\ cwPc' = "head"
    /\ UNCHANGED <<cwFrame, responses, statusCodes, paths, params, values, tracked,
                   cwInput, cwNew>>

NextCovWorker == CwGenerate \/ CwTestError \/ CwTestOK \/ CwCheck

SpecCovWorker == InitCovWorker /\ [][NextCovWorker]_vars

\* ------------------------------------------------------------------------
\* Part 9: CoverageFuzzer.expandRule. An alternative is a sequence of chunks;
\* a chunk is either one token <...> or text without "<"
\* ------------------------------------------------------------------------
\* GenerateGrammar for a GET form with action /a and the checkbox fields
\* c, d and e
GrammarCheckboxes ==
    [sym \in {"<start>", "<action>", "<query>", "<c>", "<d>", "<e>", "<checkbox>"} |->
        CASE sym = "<start>"    -> << <<"<action>", "?", "<query>">> >>
          [] sym = "<action>"   -> << <<"/a">> >>
          [] sym = "<query>"    -> << <<"<c>", "&", "<d>", "&", "<e>">> >>
          [] sym = "<c>"        -> << <<"c=", "<checkbox>">> >>
          [] sym = "<d>"        -> << <<"d=", "<checkbox>">> >>
          [] sym = "<e>"        -> << <<"e=", "<checkbox>">> >>
          [] sym = "<checkbox>" -> << <<"on">>, <<"off">> >>]

\* GenerateGrammar for a GET form with action /a, the checkbox field c and
\* the text field f with pattern "[a-z]": convertPatternToGrammar turns the
\* pattern into "<lower>", for which no rule is added
GrammarPattern ==
    [sym \in {"<start>", "<action>", "<query>", "<c>", "<f>", "<checkbox>",
              "<pattern-f>"} |->
        CASE sym = "<start>"     -> << <<"<action>", "?", "<query>">> >>
          [] sym = "<action>"    -> << <<"/a">> >>
          [] sym = "<query>"     -> << <<"<c>", "&", "<f>">> >>
          [] sym = "<c>"         -> << <<"c=", "<checkbox>">> >>
          [] sym = "<f>"         -> << <<"f=", "<pattern-f>">> >>
          [] sym = "<checkbox>"  -> << <<"on">>, <<"off">> >>
          [] sym = "<pattern-f>" -> << <<"<lower>">> >>]

\* GenerateGrammar for a GET form with action /a and the select field s
\* whose options are "1", "2" and "3"
GrammarSelect ==
    [sym \in {"<start>", "<action>", "<query>", "<s>", "<value-s>"} |->
        CASE sym = "<start>"   -> << <<"<action>", "?", "<query>">> >>
          [] sym = "<action>"  -> << <<"/a">> >>
          [] sym = "<query>"   -> << <<"<s>">> >>
          [] sym = "<s>"       -> << <<"s=", "<value-s>">> >>
          [] sym = "<value-s>" -> << <<"1">>, <<"2">>, <<"3">> >>]

ErGrammars == {GrammarCheckboxes, GrammarPattern, GrammarSelect}

\* the chunks that are a token <...>
ErTokens ==
    {"<start>", "<action>", "<query>", "<c>", "<d>", "<e>", "<f>", "<s>", "<checkbox>",
     "<pattern-f>", "<value-s>", "<lower>"}

\* the scan of expandRule: the index of the first token <...> of alt, 0 when
\* there is none (start == -1 || end == -1)
RECURSIVE nextRule(_, _)
nextRule(alt, k) ==
    IF k > Len(alt) THEN 0
    ELSE IF alt[k] \in ErTokens THEN k
    ELSE nextRule(alt, k + 1)

\* alt[:start] + expansion + alt[end:] for the token at index k
replaceRule(alt, k, expansion) ==
    SubSeq(alt, 1, k - 1) \o expansion \o SubSeq(alt, k + 1, Len(alt))

\* NewCoverageFuzzer with the grammar of a form, before expandRule("<start>")
InitExpand ==
    /\ SchedIdle
    /\ TrackerIdle
    /\ GenIdle
    /\ CovIdle
    /\ MwIdle
    /\ PoolIdle
    /\ MsIdle
    /\ CwIdle
    /\ CrIdle
    /\ erGrammar \in ErGrammars
    /\ erStack = <<>>
    /\ erPc = "start"
    /\ erResult = <<>>
    /\ erTick = 0

\* what expandRule leaves alone
erFrame == <<schedVars, gcVars, genVars, covVars, mwVars, poolVars, msVars, cwVars, crVars,
             erGrammar>>

\* generateFromGrammar: f.expandRule("<start>") picks an alternative of <start>
ErStart ==
    /\ erPc = "start"
    /\ \E n \in 1..Len(erGrammar["<start>"]) : erStack' = <<erGrammar["<start>"][n]>>
    /\ erPc' = "loop"
    /\ UNCHANGED <<erFrame, erResult, erTick>>

\* the scan finds a token that has a rule: the nested call picks one of its
\* alternatives
ErExpandNested ==
    /\ erPc = "loop"
    /\ LET alt == erStack[Len(erStack)]
           k   == nextRule(alt, 1)
       IN  /\ k # 0
           /\ alt[k] \in DOMAIN erGrammar
           /\ \E n \in 1..Len(erGrammar[alt[k]]) :
                  erStack' = Append(erStack, erGrammar[alt[k]][n])
    /\ UNCHANGED <<erFrame, erPc, erResult, erTick>>

\* the scan finds a token without a rule: the nested call returns the token
\* itself, which replaces the token, and the loop goes on
ErExpandUnknown ==
    /\ erPc = "loop"
    /\ LET alt == erStack[Len(erStack)]
           k   == nextRule(alt, 1)
       IN  /\ k # 0
           /\ alt[k] \notin DOMAIN erGrammar
           /\ erStack' = [erStack EXCEPT ![Len(erStack)] = replaceRule(alt, k, <<alt[k]>>)]
    /\ erTick' = 1 - erTick
    /\ UNCHANGED <<erFrame, erPc, erResult>>

\* the scan finds no token: break and return alt; the caller replaces the
\* token it was expanding by the returned text
ErReturn ==
    /\ erPc = "loop"
    /\ LET alt == erStack[Len(erStack)]
       IN  /\ nextRule(alt, 1) = 0
           /\ IF Len(erStack) = 1
              THEN /\ erResult' = alt
                   /\ erStack' = <<>>
                   /\ erPc' = "done"
                   /\ UNCHANGED erTick
              ELSE LET caller == erStack[Len(erStack) - 1]
                       k      == nextRule(caller, 1)
                   IN  /\ erStack' = Append(SubSeq(erStack, 1, Len(erStack) - 2),
                                            replaceRule(caller, k, alt))
                       /\ erTick' = 1 - erTick
                       /\ UNCHANGED <<erPc, erResult>>
    /\ UNCHANGED erFrame

NextExpand == ErStart \/ ErExpandNested \/ ErExpandUnknown \/ ErReturn

\* every call of expandRule runs on: the goroutine of the worker is scheduled
SpecExpand == InitExpand /\ [][NextExpand]_vars /\ WF_vars(NextExpand)

\* ------------------------------------------------------------------------
\* Part 10: WebCrawler.crawlConcurrent: the URL workers, the completion
\* monitor and the goroutine of crawlConcurrent itself. A close of a closed
\* channel and a send on a closed channel panic and end the process. The
\* work slots of workQueue are as many as the workers, so acquiring one
\* never blocks
\* ------------------------------------------------------------------------
\* largest WebCrawler.maxPages
MaxPagesBound == 2

\* the capacity of urlQueue
QueueCap == 10000

\* the start URL
StartURL == "/"

\* the sites: a page with two links, one of them back to the start; a page
\* without links; a page whose only link leaves the host
SiteLinked == [url \in {"/", "/a", "/b"} |->
                  IF url = "/" THEN <<"/a", "/b">>
                  ELSE IF url = "/a" THEN <<"/">> ELSE <<>>]
SiteLeaf == [url \in {"/"} |-> <<>>]
SiteExternal == [url \in {"/"} |-> <<"ext">>]
CrSites == {SiteLinked, SiteLeaf, SiteExternal}

\* isSameHost(url)
isSameHost(url) == url # "ext"

\* NewWebCrawler and the start of crawlConcurrent: pendingWork is 1 for the
\* initial URL, the workers and the monitor are started
InitCrawl ==
    /\ SchedIdle
    /\ TrackerIdle
    /\ GenIdle
    /\ CovIdle
    /\ MwIdle
    /\ PoolIdle
    /\ MsIdle
    /\ CwIdle
    /\ ErIdle
    /\ crSite \in CrSites
    /\ maxPages \in 1..MaxPagesBound
    /\ visited = {}
    /\ stopCrawl = FALSE
    /\ urlQueue = <<>>
    /\ queueClosed = FALSE
    /\ done = FALSE
    /\ pendingWork = 1
    /\ crWorker = [w \in CrawlWorkers |-> CrAt("select", "", 0)]
    /\ crMonitor = "poll"
    /\ crMain = "add"
    /\ crPolls = 0
    /\ crPanic = "none"

\* what the crawl leaves alone
crFrame == <<schedVars, gcVars, genVars, covVars, mwVars, poolVars, msVars, cwVars, erVars,
             crSite, maxPages>>

\* worker w moves to position p
CrGoto(w, p, url, k) == crWorker' = [crWorker EXCEPT ![w] = CrAt(p, url, k)]

\* close(c.stopCrawl): a second close panics
CloseStop ==
    /\ stopCrawl' = TRUE
    /\ crPanic' = IF stopCrawl THEN "close of closed channel" ELSE crPanic

\* worker: select takes case <-c.stopCrawl: return
CrWorkerStop(w) ==
    /\ crPanic = "none"
    /\ crWorker[w].pc = "select"
    /\ stopCrawl
    /\ CrGoto(w, "exit", "", 0)
    /\ UNCHANGED <<crFrame, visited, stopCrawl, urlQueue, queueClosed, done, pendingWork,
                   crMonitor, crMain, crPolls, crPanic>>

\* worker: select receives from the closed and drained urlQueue: !ok, return
CrWorkerClosed(w) ==
    /\ crPanic = "none"
    /\ crWorker[w].pc = "select"
    /\ queueClosed /\ urlQueue = <<>>
    /\ CrGoto(w, "exit", "", 0)
    /\ UNCHANGED <<crFrame, visited, stopCrawl, urlQueue, queueClosed, done, pendingWork,
                   crMonitor, crMain, crPolls, crPanic>>

\* worker: select receives a URL; a URL not visited and of the same host is
\* marked and handed to processURL, any other decrements pendingWork
CrTake(w) ==
    /\ crPanic = "none"
    /\ crWorker[w].pc = "select"
    /\ urlQueue # <<>>
    /\ urlQueue' = Tail(urlQueue)
    /\ LET url == Head(urlQueue)
       IN  IF url \notin visited /\ isSameHost(url)
           THEN /\ visited' = visited \cup {url}
                /\ CrGoto(w, "fetch", url, 0)
                /\ UNCHANGED pendingWork
           ELSE /\ pendingWork' = pendingWork - 1
                /\ UNCHANGED <<visited, crWorker>>
    /\ UNCHANGED <<crFrame, stopCrawl, queueClosed, done, crMonitor, crMain, crPolls, crPanic>>

\* processURL returns early: http.Get fails, a security block is detected,
\* or html.Parse fails
CrAbort(w) ==
    /\ crPanic = "none"
    /\ crWorker[w].pc = "fetch"
    /\ \E why \in {"fetch error", "security block", "parse error"} :
           CrGoto(w, "select", why, 0)
    /\ UNCHANGED <<crFrame, visited, stopCrawl, urlQueue, queueClosed, done, pendingWork,
                   crMonitor, crMain, crPolls, crPanic>>

\* processURL: the page is parsed and its forms are added. With a new form
\* noNewFormsSince is reset; without one the time since the last new form is
\* read, and more than 15 seconds lead to the stop
CrForms(w) ==
    /\ crPanic = "none"
    /\ crWorker[w].pc = "fetch"
    /\ \E foundNew \in BOOLEAN, elapsed \in BOOLEAN :
           IF ~foundNew /\ elapsed
           THEN CrGoto(w, "stopSelect", crWorker[w].url, 0)
           ELSE CrGoto(w, "links", crWorker[w].url, 0)
    /\ UNCHANGED <<crFrame, visited, stopCrawl, urlQueue, queueClosed, done, pendingWork,
                   crMonitor, crMain, crPolls, crPanic>>

\* processURL, the 15-second stop: select { case <-c.stopCrawl: default: ... }
\* then return
CrStopSelect(w) ==
    /\ crPanic = "none"
    /\ crWorker[w].pc = "stopSelect"
    /\ IF stopCrawl
       THEN CrGoto(w, "select", "stopped", 0)
       ELSE CrGoto(w, "stopClose", crWorker[w].url, 0)
    /\ UNCHANGED <<crFrame, visited, stopCrawl, urlQueue, queueClosed, done, pendingWork,
                   crMonitor, crMain, crPolls, crPanic>>

\* processURL, the 15-second stop: the default branch runs close(c.stopCrawl)
CrStopClose(w) ==
    /\ crPanic = "none"
    /\ crWorker[w].pc = "stopClose"
    /\ CloseStop
    /\ CrGoto(w, "select", "stopped", 0)
    /\ UNCHANGED <<crFrame, visited, urlQueue, queueClosed, done, pendingWork,
                   crMonitor, crMain, crPolls>>

\* processURL: links := c.extractLinks(doc); with links pendingWork grows by
\* their number, without any the current URL is done
CrLinks(w) ==
    /\ crPanic = "none"
    /\ crWorker[w].pc = "links"
    /\ LET links == crSite[crWorker[w].url]
       IN  IF Len(links) > 0
           THEN /\ pendingWork' = pendingWork + Len(links)
                /\ CrGoto(w, "queue", crWorker[w].url, 1)
           ELSE /\ pendingWork' = pendingWork - 1
                /\ CrGoto(w, "select", "done", 0)
    /\ UNCHANGED <<crFrame, visited, stopCrawl, urlQueue, queueClosed, done,
                   crMonitor, crMain, crPolls, crPanic>>

\* processURL, one round of the loop over the links: the max-pages stop
\* closes stopCrawl and returns; else the link is sent to urlQueue, or
\* pendingWork is decremented when the queue is full; after the last link
\* the current URL is done
CrQueue(w) ==
    /\ crPanic = "none"
    /\ crWorker[w].pc = "queue"
    /\ LET links == crSite[crWorker[w].url]
           k     == crWorker[w].k
       IN  IF k > Len(links)
           THEN /\ pendingWork' = pendingWork - 1
                /\ CrGoto(w, "select", "done", 0)
                /\ UNCHANGED <<stopCrawl, urlQueue, crPanic>>
           ELSE IF Cardinality(visited) >= maxPages
           THEN /\ CloseStop
                /\ CrGoto(w, "select", "max pages", 0)
                /\ UNCHANGED <<urlQueue, pendingWork>>
           ELSE IF queueClosed
           THEN /\ crPanic' = "send on closed channel"
                /\ UNCHANGED <<stopCrawl, urlQueue, pendingWork, crWorker>>
           ELSE IF Len(urlQueue) < QueueCap
           THEN /\ urlQueue' = Append(urlQueue, links[k])
                /\ CrGoto(w, "queue", crWorker[w].url, k + 1)
                /\ UNCHANGED <<stopCrawl, pendingWork, crPanic>>
           ELSE /\ pendingWork' = pendingWork - 1
                /\ CrGoto(w, "queue", crWorker[w].url, k + 1)
                /\ UNCHANGED <<stopCrawl, urlQueue, crPanic>>
    /\ UNCHANGED <<crFrame, visited, queueClosed, done, crMonitor, crMain, crPolls>>

\* monitor: atomic.LoadInt32(&pendingWork) == 0 leads to the select, any
\* other value to time.Sleep and the next round
CrMonitorPoll ==
    /\ crPanic = "none"
    /\ crMonitor = "poll"
    /\ IF pendingWork = 0
       THEN crMonitor' = "select" /\ UNCHANGED crPolls
       ELSE crPolls' = 1 - crPolls /\ UNCHANGED crMonitor
    /\ UNCHANGED <<crFrame, visited, stopCrawl, urlQueue, queueClosed, done, pendingWork,
                   crWorker, crMain, crPanic>>

\* monitor: select { case <-c.stopCrawl: return; default: ... }
CrMonitorSelect ==
    /\ crPanic = "none"
    /\ crMonitor = "select"
    /\ crMonitor' = IF stopCrawl THEN "exit" ELSE "close"
    /\ UNCHANGED <<crFrame, visited, stopCrawl, urlQueue, queueClosed, done, pendingWork,
                   crWorker, crMain, crPolls, crPanic>>

\* monitor: close(c.stopCrawl); close(done); return
CrMonitorClose ==
    /\ crPanic = "none"
    /\ crMonitor = "close"
    /\ CloseStop
    /\ done' = IF stopCrawl THEN done ELSE TRUE
    /\ crMonitor' = "exit"
    /\ UNCHANGED <<crFrame, visited, urlQueue, queueClosed, pendingWork, crWorker, crMain,
                   crPolls>>

\* crawlConcurrent: urlQueue <- startURL
CrMainAdd ==
    /\ crPanic = "none"
    /\ crMain = "add"
    /\ urlQueue' = Append(urlQueue, StartURL)
    /\ crMain' = "wait"
    /\ UNCHANGED <<crFrame, visited, stopCrawl, queueClosed, done, pendingWork, crWorker,
                   crMonitor, crPolls, crPanic>>

\* crawlConcurrent: done or stopCrawl is closed; close(urlQueue)
CrMainCleanup ==
    /\ crPanic = "none"
    /\ crMain = "wait"
    /\ done \/ stopCrawl
    /\ queueClosed' = TRUE
    /\ crMain' = "join"
    /\ UNCHANGED <<crFrame, visited, stopCrawl, urlQueue, done, pendingWork, crWorker,
                   crMonitor, crPolls, crPanic>>

\* crawlConcurrent: wg.Wait() returns once every worker returned; return nil
CrMainReturn ==
    /\ crPanic = "none"
    /\ crMain = "join"
    /\ \A w \in CrawlWorkers : crWorker[w].pc = "exit"
    /\ crMain' = "returned"
    /\ UNCHANGED <<crFrame, visited, stopCrawl, urlQueue, queueClosed, done, pendingWork,
                   crWorker, crMonitor, crPolls, crPanic>>

\* the steps of the goroutine of worker w
CrWorkerStep(w) ==
    \/ CrWorkerStop(w) \/ CrWorkerClosed(w) \/ CrTake(w) \/ CrAbort(w) \/ CrForms(w)
    \/ CrStopSelect(w) \/ CrStopClose(w) \/ CrLinks(w) \/ CrQueue(w)

\* the steps of the completion monitor
CrMonitorStep == CrMonitorPoll \/ CrMonitorSelect \/ CrMonitorClose

\* the steps of crawlConcurrent itself
CrMainStep == CrMainAdd \/ CrMainCleanup \/ CrMainReturn

NextCrawl == CrMainStep \/ CrMonitorStep \/ \E w \in CrawlWorkers : CrWorkerStep(w)

SpecCrawl == InitCrawl /\ [][NextCrawl]_vars

\* the Go scheduler runs every goroutine that can take a step
SpecCrawlFair ==
    /\ SpecCrawl
    /\ WF_vars(CrMainStep)
    /\ WF_vars(CrMonitorStep)
    /\ \A w \in CrawlWorkers : WF_vars(CrWorkerStep(w))

\* ------------------------------------------------------------------------
\* Properties of the mutation-coverage scheduler
\* ------------------------------------------------------------------------
\* the set of the entries of a list
Range(q) == {q[k] : k \in 1..Len(q)}

\* how many entries of the list q are x
Count(q, x) == Cardinality({k \in 1..Len(q) : q[k] = x})

\* the running sum of energies up to and including entry k of the population
RunningSum(k) == SumEnergies(SubSeq(population, 1, k), energies)

\* C1: in every state of the mutation-coverage scheduler (so after every
\* addToPopulation, assignEnergy and prunePopulation), totalEnergy is the sum
\* of energies[x] over the entries x of population, one term per entry.
C1_TotalEnergyIsSum ==
    IsMCF => totalEnergy = SumEnergies(population, energies)

\* C2: at the head of every iteration of the mutation-coverage loop the
\* population holds at most maxPopulation entries.
C2_HeadWithinCap ==
    (IsMCF /\ pc = "head") => Len(population) <= maxPopulation

C4_ZeroCapKeepsAll ==
    [][(IsMCF /\ pc = "prune" /\ maxPopulation = 0) => population' = population]_vars

\* the first two entries, in insertion order, of those whose input has energy 10
FirstTwoOfEnergy10(inserted) ==
    SubSeq(SelectSeq(inserted, LAMBDA x : Energy(energies, x) = 10), 1, 2)

\* the state after a run of exactly three iterations, each of which tested a
\* mutant with a new fingerprint, from one seed with maxPopulation = 2
C5_Scenario ==
    /\ IsMCF /\ pc = "head" /\ i = 3
    /\ Len(SeedInputs) = 1 /\ maxPopulation = 2
    /\ Len(accepted) = 3

C6_AdmissionPolicy ==
    [][(IsMCF /\ pc = "tested") =>
          IF cov \notin coverageSeen
          THEN /\ population' = Append(population, mutated)
               /\ Energy(energies', mutated) = 10
               /\ Energy(energies', input) = Energy(energies, input)
          ELSE /\ population' = population
               /\ Energy(energies', input) = 1]_vars

\* C6 amended: as C6, but the parent's energy is unchanged only when the mutant
\* differs from the parent (a mutant equal to its parent shares its energy
\* entry, which becomes 10).
C6_AdmissionPolicyAmended ==
    [][(IsMCF /\ pc = "tested") =>
          IF cov \notin coverageSeen
          THEN /\ population' = Append(population, mutated)
               /\ Energy(energies', mutated) = 10
               /\ (mutated # input => Energy(energies', input) = Energy(energies, input))
               /\ (mutated = input => Energy(energies', input) = 10)
          ELSE /\ population' = population
               /\ Energy(energies', input) = 1]_vars

\* C6 witness: a mutant that differs from its parent has just been admitted
\* with energy 10 while the parent, demoted earlier, still has energy 1.
C6_Witness ==
    /\ IsMCF /\ pc = "prune"
    /\ Len(accepted) >= 2
    /\ accepted[Len(accepted)] = mutated
    /\ population[Len(population)] = mutated
    /\ mutated # input
    /\ Energy(energies, mutated) = 10
    /\ Energy(energies, input) = 1
    /\ Cardinality(coverageSeen) = Len(accepted)
    /\ i >= 2

\* C7: selectInput returns, for the drawn point, the first entry of a non-empty
\* population whose running sum of energies strictly exceeds the point, and
\* the first seed on an empty population.
C7_SelectFirstExceeding ==
    (IsMCF /\ pc = "selected") =>
        IF Len(population) = 0
        THEN input = SeedInputs[1]
        ELSE /\ point \in 0..(totalEnergy - 1)
             /\ \E k \in 1..Len(population) :
                   /\ RunningSum(k) > point
                   /\ \A j \in 1..(k - 1) : RunningSum(j) <= point
                   /\ input = population[k]

\* C8: with an empty seed list, Run of either mutation loop ends by returning
\* an error, and no request has been executed.
C8_EmptySeedsInputError ==
    (Len(SeedInputs) = 0 /\ pc = "done") => (runResult = "error" /\ requests = 0)

\* C34: whenever the population is non-empty, totalEnergy >= 1 and every
\* population entry has an energy >= 1 in energies, so that selectInput never
\* calls rand.Intn with a non-positive argument
C34_EnergiesPositive ==
    (IsMCF /\ Len(population) > 0) =>
        /\ totalEnergy >= 1
        /\ \A k \in 1..Len(population) :
              /\ population[k] \in DOMAIN energies
              /\ energies[population[k]] >= 1
        /\ runResult # "panic"

\* C34 witness: selectInput has drawn from a population that holds an entry
\* of energy 10 after at least one full iteration with its pruning
C34_Witness ==
    /\ IsMCF /\ pc = "selected" /\ i >= 1
    /\ point >= 0
    /\ \E k \in 1..Len(population) : Energy(energies, population[k]) = 10

\* ------------------------------------------------------------------------
\* Properties of the grammar coverage tracker
\* ------------------------------------------------------------------------
\* the fraction p lies in [0, 1]
InUnitInterval(p) == p.den > 0 /\ 0 <= p.num /\ p.num <= p.den

\* the fraction p is 1.0
IsOne(p) == p.den # 0 /\ p.num = p.den

\* C9: for every symbol S of the snapshot and every expansion e of S,
\* GetCoveragePriority(S, e) lies in [0, 1] and is 1.0 when the covered count
\* of (S, e) is zero.
C9_PriorityInUnitInterval ==
    \A pr \in SnapshotPairs(expansions) :
        LET p == GetCoveragePriority(priorities, pr[1], pr[2])
        IN  /\ InUnitInterval(p)
            /\ (CoveredCount(covered, expansionKey(pr[1], pr[2])) = 0 => IsOne(p))

\* total_S of the priority rule: the covered counts summed over the expansions
\* of S in the snapshot
SnapshotTotal(symbol) ==
    LET RECURSIVE upTo(_)
        upTo(k) == IF k = 0 THEN 0
                   ELSE CoveredCount(covered, expansionKey(symbol, expansions[symbol][k]))
                        + upTo(k - 1)
    IN  upTo(Len(expansions[symbol]))

\* C10: for every covered expansion e of a symbol S of the snapshot, the
\* priority is 1 - covered[(S,e)] / total_S with total_S summed over the
\* expansions of S in the snapshot only.
C10_PriorityRule ==
    \A pr \in SnapshotPairs(expansions) :
        LET p == GetCoveragePriority(priorities, pr[1], pr[2])
            count == CoveredCount(covered, expansionKey(pr[1], pr[2]))
            total == SnapshotTotal(pr[1])
        IN  count > 0 => (p.den # 0 /\ p.num * total = (total - count) * p.den)

\* the numerator, over a positive denominator, of the sum of the priorities of
\* the expansions of symbol in the snapshot
PrioritySum(symbol) ==
    LET ps == priorityList(priorities, symbol, expansions[symbol])
    IN  SumScaled(ps, CommonDen(ps))

\* C11: in every tracker state, for every symbol with at least one expansion,
\* the sum of the priorities of its expansions is strictly positive.
C11_PrioritySumPositive ==
    \A symbol \in DOMAIN expansions :
        Len(expansions[symbol]) >= 1 => PrioritySum(symbol) > 0

\* ------------------------------------------------------------------------
\* Properties of the generators
\* ------------------------------------------------------------------------
\* a call of generateDerivationTree is about to choose an expansion
Choosing ==
    /\ gpc = "generate" /\ pending # NoCall
    /\ ~depthExceeded(pending.depth)
    /\ Len(GrammarExpansions(grammar, pending.symbol)) > 0

\* the index of the first fraction of ps whose cumulative sum strictly exceeds
\* the draw r (in units of 1/Resolution of 1/D), 0 when there is none
FirstExceeding(ps, D, r) ==
    LET exceeds(k) == Resolution * SumScaled(SubSeq(ps, 1, k), D) > r
    IN  IF \E k \in 1..Len(ps) : exceeds(k)
        THEN CHOOSE k \in 1..Len(ps) : exceeds(k) /\ \A j \in 1..(k - 1) : ~exceeds(j)
        ELSE 0

\* C12: when the weighted chooser is called with T > 0, the draw u lies in
\* [0, T) and the expansion returned is the first one whose cumulative
\* priority strictly exceeds u, so its priority is not 0.
C12_WeightedFirstExceeding ==
    [][LET exps == GrammarExpansions(grammar, pending.symbol)
           ps   == priorityList(priorities, pending.symbol, exps)
           D    == CommonDen(ps)
           T    == SumScaled(ps, D)
       IN  (IsGCF /\ Choosing /\ T > 0) =>
              /\ choice'.branch = "weighted"
              /\ choice'.r \in 0..(Resolution * T - 1)
              /\ FirstExceeding(ps, D, choice'.r) > 0
              /\ choice'.expansion = exps[FirstExceeding(ps, D, choice'.r)]
              /\ GetCoveragePriority(priorities, pending.symbol, choice'.expansion).num # 0]_vars

\* C13: after a Reset() step every covered count is 0, GetCoveragePriority
\* returns 1.0 for every expansion of the snapshot, and the snapshot is
\* unchanged.
C13_ResetClears ==
    [][Reset =>
          /\ \A key \in DOMAIN covered' : covered'[key] = 0
          /\ \A pr \in SnapshotPairs(expansions') :
                /\ CoveredCount(covered', expansionKey(pr[1], pr[2])) = 0
                /\ IsOne(GetCoveragePriority(priorities', pr[1], pr[2]))
          /\ expansions' = expansions]_vars

\* the expansion keys of the TrackExpansion calls made while the tree was built,
\* one per node at which the generator chose an expansion
CallKeys == [k \in 1..Len(calls) |-> expansionKey(calls[k][1], calls[k][2])]

\* C14: the TrackDerivationTree step of Run on the generated tree increases
\* covered[key] by exactly the number of nodes at which the generator chose
\* an expansion with that key, and changes no other count.
C14_TrackTreeCountsChosenNodes ==
    [][gpc = "generated" =>
          \A key \in (DOMAIN covered) \cup (DOMAIN covered') \cup Range(CallKeys) :
              CoveredCount(covered', key) = CoveredCount(covered, key) + Count(CallKeys, key)]_vars

\* C15: for every generated tree, the multiset of the keys returned by
\* GetAllExpansions equals the multiset of the (symbol, expansion) pairs passed
\* to TrackExpansion while the tree was built.
C15_TreeExpansionsAreCalls ==
    gpc = "generated" =>
        \A key \in Range(GetAllExpansions(genTree)) \cup Range(CallKeys) :
            Count(GetAllExpansions(genTree), key) = Count(CallKeys, key)

\* generateDerivationTree("<start>", 0) has just returned to the first Run on
\* the grammar of scenario 1, with MaxDepth >= 2 and a tracker that was fresh
C16_Scenario ==
    /\ grammar = GrammarScenario1 /\ MaxDepth >= 2
    /\ gpc = "generated" /\ runs = 0

\* C16 as stated: the scenario produces the leaf string "xy" and leaves
\* covered = {"<start> -> a b": 1, "<a> -> x": 1, "<b> -> y": 1}.
C16_LeafStringXY ==
    C16_Scenario =>
        /\ treeToString(genTree) = <<"x", "y">>
        /\ DOMAIN covered = {expansionKey(<<"<start>">>, <<"a", Space, "b">>),
                             expansionKey(<<"<a>">>, <<"x">>),
                             expansionKey(<<"<b>">>, <<"y">>)}
        /\ \A key \in DOMAIN covered : covered[key] = 1

\* C16 amended: the scenario produces the leaf string "ab" (the parts "a" and
\* "b" of "a b" are terminals) and leaves covered = {"<start> -> a b": 1}.
C16_LeafStringAB ==
    C16_Scenario =>
        /\ treeToString(genTree) = <<"a", "b">>
        /\ DOMAIN covered = {expansionKey(<<"<start>">>, <<"a", Space, "b">>)}
        /\ \A key \in DOMAIN covered : covered[key] = 1

\* C16 witness: the scenario's tree has been generated; its root has the two
\* leaves of the parts of "a b".
C16_Witness ==
    /\ C16_Scenario
    /\ genTree.Expansion = <<"a", Space, "b">>
    /\ Len(genTree.Children) = 2
    /\ Len(calls) = 1

RECURSIVE RightmostLeaf(_)
\* the last leaf of the tree t, left to right
RightmostLeaf(t) ==
    IF Len(t.Children) = 0 THEN t ELSE RightmostLeaf(t.Children[Len(t.Children)])

\* generateDerivationTree("<start>", 0) has just returned to the first Run on
\* the self-recursive grammar
C17_Scenario ==
    /\ grammar = GrammarSelf
    /\ gpc = "generated" /\ runs = 0

\* C17 as stated: with MaxDepth = n the rightmost leaf of the tree has value
\* "max_depth_reached" and covered["<start> -> <start>"] = n.
C17_CoveredIsMaxDepth ==
    C17_Scenario =>
        /\ RightmostLeaf(genTree).Value = MaxDepthReached
        /\ CoveredCount(covered, expansionKey(<<"<start>">>, <<"<start>">>)) = MaxDepth

\* C17 amended: with MaxDepth = n the rightmost leaf of the tree has value
\* "max_depth_reached" and covered["<start> -> <start>"] = n + 1 (the depths
\* 0..n are expanded).
C17_CoveredIsMaxDepthPlusOne ==
    C17_Scenario =>
        /\ RightmostLeaf(genTree).Value = MaxDepthReached
        /\ CoveredCount(covered, expansionKey(<<"<start>">>, <<"<start>">>)) = MaxDepth + 1

\* C17 witness: the scenario with max_depth = 3: four expansions were tracked.
C17_Witness ==
    /\ C17_Scenario
    /\ MaxDepth = 3
    /\ Len(calls) = 4
    /\ RightmostLeaf(genTree).Symbol = <<"<start>">>

RECURSIVE WithinDepth(_, _)
\* no node of the tree t, whose root is at depth d, lies deeper than
\* MaxDepth + 1, and every non-terminal deeper than MaxDepth is a childless
\* leaf with value "max_depth_reached" and no expansion
WithinDepth(t, d) ==
    /\ d <= MaxDepth + 1
    /\ (d > MaxDepth /\ isNonterminal(t.Symbol)) =>
          (Len(t.Children) = 0 /\ t.Value = MaxDepthReached /\ t.Expansion = Empty)
    /\ \A k \in 1..Len(t.Children) : WithinDepth(t.Children[k], d + 1)

RECURSIVE ExpandedNodes(_)
\* the number of nodes of t that are neither a terminal leaf nor a depth-cap
\* leaf: the nodes at which an expansion was chosen
ExpandedNodes(t) ==
    LET RECURSIVE ofChildren(_)
        ofChildren(k) ==
            IF k > Len(t.Children) THEN 0
            ELSE ExpandedNodes(t.Children[k]) + ofChildren(k + 1)
    IN  (IF t.Value = Empty THEN 1 ELSE 0) + ofChildren(1)

RECURSIVE SentinelDepths(_, _)
\* the depths of the depth-cap leaves of the tree t, whose root is at depth d
SentinelDepths(t, d) ==
    (IF Len(t.Children) = 0 /\ t.Value = MaxDepthReached THEN {d} ELSE {})
    \cup UNION {SentinelDepths(t.Children[k], d + 1) : k \in 1..Len(t.Children)}

\* the largest number of parts of an expansion of the grammar
MaxParts ==
    LET lens == UNION {{Len(Fields(grammar[symbol][k])) : k \in 1..Len(grammar[symbol])} :
                          symbol \in DOMAIN grammar}
    IN  CHOOSE n \in lens : \A m \in lens : m <= n

RECURSIVE CallSteps(_)
\* an upper bound on the steps of a call generateDerivationTree(_, d): one
\* step at the cap; else the choice, at most MaxParts passes of the loop over
\* the parts, each with a call at depth d + 1, and the return
CallSteps(d) ==
    IF d > MaxDepth THEN 1
    ELSE 2 + MaxParts * (1 + CallSteps(d + 1))

RECURSIVE FrameSteps(_)
\* an upper bound on the steps left to the calls of the stack stk
FrameSteps(stk) ==
    IF stk = <<>> THEN 0
    ELSE 1 + Len(Head(stk).parts) * (1 + CallSteps(Head(stk).depth + 1))
         + FrameSteps(Tail(stk))

\* an upper bound on the steps left to generateDerivationTree("<start>", 0)
RemainingSteps ==
    (IF pending # NoCall THEN CallSteps(pending.depth) ELSE 0) + FrameSteps(stack)

\* the depth bound on the running calls and on the finished tree
C18_DepthBound ==
    /\ Len(stack) <= MaxDepth + 1
    /\ \A k \in 1..Len(stack) : stack[k].depth = k - 1
    /\ pending # NoCall => pending.depth <= MaxDepth + 1
    /\ gpc = "generated" =>
          /\ WithinDepth(genTree, 0)
          /\ Len(calls) = ExpandedNodes(genTree)

\* C18: every call generateDerivationTree("<start>", 0) of either generator
\* terminates: while it runs a step is always possible, every step lowers
\* the bound RemainingSteps on the steps left, and at 0 the call has returned.
\* No node of its tree lies deeper than MaxDepth + 1, and every non-terminal
\* deeper than MaxDepth is a childless leaf with value "max_depth_reached"
\* for which no expansion was tracked.
C18_TerminatesWithinDepth ==
    /\ [](/\ C18_DepthBound
          /\ RemainingSteps >= 0
          /\ gpc = "generate" => (RemainingSteps > 0 /\ ENABLED NextGen))
    /\ [][gpc = "generate" => RemainingSteps' < RemainingSteps]_vars

\* C18 witness: a tree of the recursive grammar has been generated that
\* reaches the cap: it has a depth-cap leaf at depth MaxDepth + 1.
C18_Witness ==
    /\ gpc = "generated"
    /\ grammar = GrammarNested /\ MaxDepth >= 2
    /\ (MaxDepth + 1) \in SentinelDepths(genTree, 0)
    /\ Len(calls) = MaxDepth + 1

\* the node t is a non-terminal token that is not a key of the grammar
UnknownToken(t) == isNonterminal(t.Symbol) /\ t.Symbol \notin DOMAIN grammar

RECURSIVE UnknownDepths(_, _)
\* the depths of the nodes of t, whose root is at depth d, that are unknown tokens
UnknownDepths(t, d) ==
    (IF UnknownToken(t) THEN {d} ELSE {})
    \cup UNION {UnknownDepths(t.Children[k], d + 1) : k \in 1..Len(t.Children)}

RECURSIVE PassedThrough(_, _, _)
\* every unknown token of t, whose root is at depth d, that lies at a depth
\* up to cap is a leaf whose value is the token; deeper ones are depth-cap leaves
PassedThrough(t, d, cap) ==
    /\ UnknownToken(t) =>
          /\ Len(t.Children) = 0
          /\ t.Value = (IF d <= cap THEN t.Symbol ELSE MaxDepthReached)
    /\ \A k \in 1..Len(t.Children) : PassedThrough(t.Children[k], d + 1, cap)

RECURSIVE UnknownLeaves(_, _, _)
\* the symbols of the unknown tokens of t at a depth up to cap, left to right
UnknownLeaves(t, d, cap) ==
    LET RECURSIVE ofChildren(_)
        ofChildren(k) ==
            IF k > Len(t.Children) THEN <<>>
            ELSE UnknownLeaves(t.Children[k], d + 1, cap) \o ofChildren(k + 1)
    IN  (IF UnknownToken(t) /\ d <= cap THEN t.Symbol ELSE <<>>) \o ofChildren(1)

\* the chunks of the leaf string that belong to unknown tokens
UnknownInLeafString ==
    SelectSeq(treeToString(genTree), LAMBDA c : isNonterminal(<<c>>) /\ <<c>> \notin DOMAIN grammar)

\* C19 as stated: in every generated tree, every non-terminal token that is
\* not a key of the grammar, at whatever depth, is a leaf whose value is the
\* token, and the tokens appear unchanged, in order, in the leaf string.
C19_UnknownPassedThrough ==
    gpc = "generated" =>
        /\ PassedThrough(genTree, 0, MaxDepth + 1)
        /\ UnknownInLeafString = UnknownLeaves(genTree, 0, MaxDepth + 1)

\* C19 amended: as C19 for the tokens met at a depth up to MaxDepth; a token
\* met at depth MaxDepth + 1 is a leaf with value "max_depth_reached" and
\* does not appear in the leaf string.
C19_UnknownPassedThroughUpToCap ==
    gpc = "generated" =>
        /\ PassedThrough(genTree, 0, MaxDepth)
        /\ UnknownInLeafString = UnknownLeaves(genTree, 0, MaxDepth)

\* C19 witness: a generated tree with an unknown token passed through at
\* depth 1 and another one cut off at depth MaxDepth + 1.
C19_Witness ==
    /\ gpc = "generated"
    /\ grammar = GrammarNested /\ MaxDepth >= 1
    /\ {1, MaxDepth + 1} \subseteq UnknownDepths(genTree, 0)
    /\ Len(UnknownInLeafString) = MaxDepth

\* U: the expansions of the symbol of the starting call that are not yet covered
UncoveredOf(exps) ==
    {e \in Range(exps) : CoveredCount(covered, expansionKey(pending.symbol, e)) = 0}

\* the expansions the systematic chooser may return for the starting call
SystematicAllowed ==
    LET exps == GrammarExpansions(grammar, pending.symbol)
    IN  IF UncoveredOf(exps) # {} THEN UncoveredOf(exps) ELSE Range(exps)

\* C20: when the systematic chooser is called for a symbol S, it returns a
\* member of U = {e : (S, e) not yet covered} if U is not empty and any
\* expansion of S otherwise; every such expansion is a possible result.
C20_SystematicChoosesUncovered ==
    /\ []((IsSCF /\ Choosing) =>
             \A e \in SystematicAllowed : ENABLED (GenExpand /\ choice'.expansion = e))
    /\ [][(IsSCF /\ Choosing) => choice'.expansion \in SystematicAllowed]_vars

\* C20 witness: in its second run on the digits grammar the systematic
\* chooser has taken both tiers: all of <start> was covered, and for <d> it
\* returned the expansion that the first run had left uncovered.
C20_Witness ==
    /\ IsSCF /\ grammar = GrammarDigits
    /\ runs = 1 /\ gpc = "generate"
    /\ choice.branch = "uncovered"
    /\ Len(calls) = 2
    /\ \A k \in 1..2 : CoveredCount(covered, expansionKey(<<"<d>">>, grammar[<<"<d>">>][k])) > 0

\* both expansions of <d> of the digits grammar are covered
BothDigitsCovered ==
    \A k \in 1..2 : CoveredCount(covered, expansionKey(<<"<d>">>, GrammarDigits[<<"<d>">>][k])) > 0

\* the systematic chooser returns, for the starting call, an expansion it has
\* returned before only when no expansion of that symbol is uncovered
NoRepeatWhileUncovered ==
    (IsSCF /\ Choosing /\ <<pending.symbol, choice'.expansion>> \in chosen)
        => UncoveredOf(GrammarExpansions(grammar, pending.symbol)) = {}

SingleExpansionSymbols == {symbol \in DOMAIN grammar : Len(grammar[symbol]) = 1}

\* C22: for a symbol with exactly one expansion, the weighted chooser and the
\* systematic chooser return that expansion, in every coverage state and for
\* every draw: in every reachable state of the tracker each outcome of either
\* chooser is that expansion, and so is the one a generation step takes.
C22_SingleExpansionDeterministic ==
    /\ [](\A symbol \in SingleExpansionSymbols :
            /\ \A ch \in weightedChoices(priorities, symbol, grammar[symbol]) :
                  ch.expansion = grammar[symbol][1]
            /\ \A ch \in systematicChoices(covered, grammar, MaxDepth, symbol, grammar[symbol]) :
                  ch.expansion = grammar[symbol][1])
    /\ [][(Choosing /\ pending.symbol \in SingleExpansionSymbols)
            => choice'.expansion = grammar[pending.symbol][1]]_vars

\* C22 witness: the weighted chooser has just returned the only expansion of
\* a symbol that was already covered, its priority being 0, by its fallback.
C22_Witness ==
    /\ IsGCF /\ gpc = "generate" /\ calls # <<>>
    /\ choice.branch = "fallback"
    /\ LET last == calls[Len(calls)]
       IN  /\ last[1] \in SingleExpansionSymbols
           /\ choice.expansion = grammar[last[1]][1]
           /\ CoveredCount(covered, expansionKey(last[1], last[2])) >= 2

RECURSIVE ChildlessHaveValue(_)
\* every node of the tree t without children has a value that is not ""
ChildlessHaveValue(t) ==
    /\ Len(t.Children) = 0 => t.Value # Empty
    /\ \A k \in 1..Len(t.Children) : ChildlessHaveValue(t.Children[k])

\* C23: in every tree either generator produces, every node at which an
\* expansion was chosen (the node a call returns after its loop over the
\* parts) has at least one child, and every childless node has a defined,
\* non-empty value.
C23_InternalNodesHaveChildren ==
    /\ [](gpc = "generated" => ChildlessHaveValue(genTree))
    /\ [][GenReturn => Len(stack[Len(stack)].node.Children) >= 1]_vars

\* C32: one Run of the grammar-coverage or systematic fuzzer from a fresh
\* tracker leaves covered[key] equal to the number of nodes of the generated
\* tree that used the production key: each use is counted once
C32_RunCountsEachUseOnce ==
    (gpc = "tracked" /\ runs = 0) =>
        \A key \in (DOMAIN covered) \cup Range(CallKeys) :
            CoveredCount(covered, key) = Count(CallKeys, key)

\* ------------------------------------------------------------------------
\* Properties of the response coverage tracker
\* ------------------------------------------------------------------------
\* the responses TrackResponse has been called with
TrackedResponses == {resp \in DOMAIN tracked : tracked[resp] > 0}

\* the number of TrackResponse calls made with status code
TrackedWithStatus(code) ==
    SumOver(tracked, {resp \in TrackedResponses : resp.StatusCode = code})

\* C24: after any sequence of TrackResponse calls, unique_responses is the
\* number of distinct body hashes of the responses tracked and status_codes[c]
\* the number of tracked responses with status c; a call returns true iff its
\* status code or its body hash had not been seen before.
C24_ResponseCounts ==
    /\ [](/\ unique_responses = Cardinality({sha256Hex(resp.Body) : resp \in TrackedResponses})
          /\ \A code \in {200, 404} : CoveredCount(status_codes, code) = TrackedWithStatus(code))
    /\ [][\A resp \in Responses : trackResponseCall(resp) =>
            (covRet'.result <=>
                \/ resp.StatusCode \notin {old.StatusCode : old \in TrackedResponses}
                \/ sha256Hex(resp.Body) \notin {sha256Hex(old.Body) : old \in TrackedResponses})]_vars

\* the responses tracked whose body io.ReadAll read to its end
HashedResponses == {resp \in TrackedResponses : ~resp.readErr}

\* C24 amended: the body hashes counted and seen are those of the tracked
\* responses whose body was read completely; a call whose body cannot be
\* read counts its status code only and returns true iff that code is new.
C24_ResponseCountsOfReadBodies ==
    /\ [](/\ unique_responses = Cardinality({sha256Hex(resp.Body) : resp \in HashedResponses})
          /\ \A code \in {200, 404} : CoveredCount(status_codes, code) = TrackedWithStatus(code))
    /\ [][\A resp \in Responses : trackResponseCall(resp) =>
            (covRet'.result <=>
                \/ resp.StatusCode \notin {old.StatusCode : old \in TrackedResponses}
                \/ /\ ~resp.readErr
                   /\ sha256Hex(resp.Body) \notin {sha256Hex(old.Body) : old \in HashedResponses})]_vars

\* C24 witness: two identical responses with status 200, both read to the
\* end, have been tracked: one unique response, status 200 counted twice,
\* and the second call returned false.
C24_Witness ==
    /\ \E body \in {"ok", "no"} :
          tracked = Put(EmptyMap, [StatusCode |-> 200, Body |-> body, readErr |-> FALSE], 2)
    /\ unique_responses = 1
    /\ status_codes[200] = 2
    /\ covRet = [op |-> "TrackResponse", result |-> FALSE]

\* C25: in every tracker state and for every URL u, HasNewCoverage(u)
\* changes no state and returns the value TrackURL(u) would return from that
\* state; HasNewCoverage(u) is false right after TrackURL(u).
C25_HasNewCoverageAgreesWithTrackURL ==
    /\ [](\A urlStr \in URLStrings :
            hasNewCoverage(urlCoverage, urlStr) = trackURL(urlCoverage, urlStr).isNew)
    /\ [][\A urlStr \in URLStrings :
            /\ hasNewCoverageCall(urlStr) =>
                  /\ covRet'.result = trackURL(urlCoverage, urlStr).isNew
                  /\ UNCHANGED <<responses, statusCodes, paths, params, values>>
            /\ trackURLCall(urlStr) => ~hasNewCoverage(urlCoverage', urlStr)]_vars

\* C25 witness: after URLs with the values 1 and 2 of the parameter p were
\* tracked, HasNewCoverage has answered false.
C25_Witness ==
    /\ covRet = [op |-> "HasNewCoverage", result |-> FALSE]
    /\ "/a" \in paths
    /\ "p" \in params
    /\ ValuesOf(values, "p") = {"1", "2"}

\* ------------------------------------------------------------------------
\* Properties of the tracker under all its mutating operations
\* ------------------------------------------------------------------------
\* C26: in every state a reader can observe between the operations
\* TrackExpansion, TrackDerivationTree, AddExpansion and Reset, the priority
\* read for every expansion of the snapshot is the one the priority rule
\* (updatePriorities) gives for the current covered counts.
C26_PrioritiesNeverStale ==
    \A pr \in SnapshotPairs(expansions) :
        GetCoveragePriority(priorities, pr[1], pr[2])
            = GetCoveragePriority(updatePriorities(covered, expansions), pr[1], pr[2])

RECURSIVE PreOrderChosen(_)
\* the pairs (symbol, expansion) of the nodes of t at which an expansion was
\* chosen (the nodes without a value), in pre-order
PreOrderChosen(t) ==
    LET RECURSIVE ofChildren(_)
        ofChildren(k) ==
            IF k > Len(t.Children) THEN <<>>
            ELSE PreOrderChosen(t.Children[k]) \o ofChildren(k + 1)
    IN  (IF t.Value = Empty THEN << <<t.Symbol, t.Expansion>> >> ELSE <<>>) \o ofChildren(1)

\* C28: within one generation the TrackExpansion call for a node is made
\* before the calls for its descendants: each call is appended when every
\* caller on the stack has made its own, and the calls of a finished
\* generation are the pre-order traversal of the tree's internal nodes.
C28_TrackedInPreOrder ==
    /\ [](gpc = "generated" => calls = PreOrderChosen(genTree))
    /\ [][GenExpand =>
            /\ calls' = Append(calls, <<pending.symbol, choice'.expansion>>)
            /\ \A k \in 1..Len(stack) :
                  \E j \in 1..Len(calls) :
                      calls[j] = <<stack[k].node.Symbol, stack[k].node.Expansion>>]_vars

\* C28 witness: a tree whose root has two expanded children is finished; the
\* three calls were made for the root, its first child and its second child.
C28_Witness ==
    /\ gpc = "generated" /\ grammar = GrammarPair
    /\ calls = << <<<<"<start>">>, <<"<a>", Space, "<b>">>>>,
                  <<<<"<a>">>, <<"x">>>>,
                  <<<<"<b>">>, <<"y">>>> >>
    /\ Len(genTree.Children) = 2
    /\ genTree.Children[1].Symbol = <<"<a>">>

\* C29: a transport error on a request is not fatal in any fuzzer variant:
\* Run goes on and does not return the transport error to its caller. For
\* the grammar-coverage and the systematic variant: no call of Run returns
\* an error.
C29_TransportErrorNotReturned ==
    genResult # "error"

\* ------------------------------------------------------------------------
\* Properties of the worker pool
\* ------------------------------------------------------------------------
\* C30: a session run by the worker pool has performed exactly num_requests
\* requests in total when Run returns, for every num_requests >= 1 and every
\* concurrency in the valid range, multiples or not
C30_PoolPerformsNumRequests ==
    ppc = "returned" => requests = NumRequests

\* C36: Fuzzer.Run eventually returns for every configuration: every send of
\* a worker on the results channel is eventually received, also when the
\* result processor exited because the results file could not be created and
\* the results outnumber the buffer of the channel
C36_RunEventuallyReturns ==
    (kind = "Fuzzer") => <>(ppc = "returned")

\* ------------------------------------------------------------------------
\* Properties of mutateString
\* ------------------------------------------------------------------------
\* the bit of index bit of the byte char
BitOf(char, bit) == (char \div (2 ^ bit)) % 2

\* C31: the bit-flip mutation of a non-empty string, at every position and
\* for every bit index 0..7, returns a string of the same byte length that
\* differs from the argument in exactly that bit of that byte
C31_BitFlipOneBit ==
    (msPc = "done" /\ msArg # <<>> /\ msChoice.case = 0) =>
        /\ Len(msRet) = Len(msArg)
        /\ \A k \in 1..Len(msArg), b \in 0..7 :
               (BitOf(msRet[k], b) # BitOf(msArg[k], b))
                   <=> (k = msChoice.pos + 1 /\ b = msChoice.r)

\* ------------------------------------------------------------------------
\* Properties of the worker of CoverageFuzzer
\* ------------------------------------------------------------------------
\* C33: the worker appends the input to the corpus exactly when executing it
\* produced new URL coverage (a path, parameter or value not seen before the
\* request); the tracking done by testInput does not invalidate the check
C33_AppendedIffNewCoverage ==
    [][CwCheck => ((corpus' # corpus) <=> cwNew)]_vars

\* ------------------------------------------------------------------------
\* Properties of expandRule
\* ------------------------------------------------------------------------
\* the grammar g has an expansion that mentions a token without a rule
MentionsUnknown(g) ==
    \E sym \in DOMAIN g : \E n \in 1..Len(g[sym]) : \E k \in 1..Len(g[sym][n]) :
        g[sym][n][k] \in ErTokens \ DOMAIN g

\* C35: expandRule terminates on every grammar whose expansions mention a
\* token <...> that has no rule: the token is returned verbatim and the
\* scan-and-replace loop does not expand the same token forever
C35_ExpandRuleTerminates ==
    (erPc = "start" /\ MentionsUnknown(erGrammar)) ~> (erPc = "done")

\* ------------------------------------------------------------------------
\* Properties of the concurrent crawler
\* ------------------------------------------------------------------------
\* C37: stopCrawl is closed at most once in every interleaving of the workers
\* and the completion monitor (the 15-second stop, the max-pages stop and the
\* pending-work-zero stop never each close it): no execution panics on a
\* double close
C37_StopClosedAtMostOnce ==
    crPanic # "close of closed channel"

\* C38: crawlConcurrent eventually returns once every queued URL has been
\* handled: pendingWork is decremented exactly once for every URL taken from
\* the queue on every path of processURL, so it reaches 0 and the monitor
\* signals completion (the executions ended by a panic are set aside)
C38_CrawlEventuallyReturns ==
    <>(crMain = "returned" \/ crPanic # "none")

====
